---- MODULE Spec2Model ----
(***************************************************************************)
(* NutriVision AI service: the food detection and portion estimation       *)
(* pipeline (ai-service/app/services/food_detection.py), the model         *)
(* registry it reads (model_loader.py) and the HTTP handler that calls it  *)
(* (routers/food_analysis.py).                                             *)
(*                                                                         *)
(* Python floats are carried as rationals [n, d] in lowest terms, and as    *)
(* IEEE 754 doubles where the program decides on one (round() at a value   *)
(* halfway between two decimals, `> 10` at 10, int() of a difference at a  *)
(* whole number); strings are sequences of characters so that str.lower()  *)
(* is computed as the program computes it.                                 *)
(***************************************************************************)
EXTENDS Integers, Sequences, FiniteSets, TLC

(* ------------------------------------------------------------------ *)
(* Floats as rationals                                                  *)
(* ------------------------------------------------------------------ *)

Abs(x) == IF x < 0 THEN -x ELSE x

RECURSIVE GCD(_, _)
GCD(a, b) == IF b = 0 THEN a ELSE GCD(b, a % b)

\* The float n/d (d # 0), in lowest terms with a positive denominator.
Rat(n, d) ==
    LET g == GCD(Abs(n), Abs(d))
        s == IF d < 0 THEN -1 ELSE 1
    IN  [n |-> (s * n) \div g, d |-> (s * d) \div g]

Int2F(i) == [n |-> i, d |-> 1]

FAdd(a, b) ==
    LET g == GCD(a.d, b.d)
    IN  Rat(a.n * (b.d \div g) + b.n * (a.d \div g), (a.d \div g) * b.d)
FSub(a, b) == FAdd(a, [n |-> -b.n, d |-> b.d])
FMul(a, b) ==
    LET g1 == GCD(Abs(a.n), b.d)
        g2 == GCD(Abs(b.n), a.d)
    IN  Rat((a.n \div g1) * (b.n \div g2), (a.d \div g2) * (b.d \div g1))
FDiv(a, b) == FMul(a, Rat(b.d, b.n))
FLt(a, b) ==
    LET g == GCD(a.d, b.d)
    IN  a.n * (b.d \div g) < b.n * (a.d \div g)
FGt(a, b) == FLt(b, a)
FLe(a, b) == ~FLt(b, a)

\* Python's built-in min(a, b) and max(a, b): the first argument unless the
\* second is strictly smaller (larger).
PyMin(a, b) == IF FLt(b, a) THEN b ELSE a
PyMax(a, b) == IF FGt(b, a) THEN b ELSE a

\* int(x): truncation toward zero.
PyInt(a) == IF a.n >= 0 THEN a.n \div a.d ELSE -((-a.n) \div a.d)

Pow10(k) == 10 ^ k

(* ------------------------------------------------------------------ *)
(* Floats as IEEE 754 doubles                                           *)
(*                                                                      *)
(* A rational stands for the double next to it wherever the program     *)
(* only adds, multiplies and divides.  Where the program decides on a   *)
(* float (round() at a tie, `> 10` at 10) the double itself decides,    *)
(* computed here: a double is s * m * 2^e with m a natural number of at *)
(* most 53 bits, naturals being little-endian sequences of limbs below  *)
(* 2^15 without a high zero limb.                                       *)
(* ------------------------------------------------------------------ *)

Base == 32768

Pow2(k) == 2 ^ k

RECURSIVE BTrim(_)
BTrim(a) ==
    IF a = <<>> \/ a[Len(a)] # 0 THEN a ELSE BTrim(SubSeq(a, 1, Len(a) - 1))

RECURSIVE BFromInt(_)
BFromInt(n) == IF n = 0 THEN <<>> ELSE <<n % Base>> \o BFromInt(n \div Base)

RECURSIVE BToInt(_)
BToInt(a) == IF a = <<>> THEN 0 ELSE Head(a) + Base * BToInt(Tail(a))

\* a + b + c, c a carry of 0 or 1
RECURSIVE BAddC(_, _, _)
BAddC(a, b, c) ==
    IF a = <<>> /\ b = <<>> THEN (IF c = 0 THEN <<>> ELSE <<c>>)
    ELSE LET x == (IF a = <<>> THEN 0 ELSE Head(a))
                  + (IF b = <<>> THEN 0 ELSE Head(b)) + c
         IN  <<x % Base>> \o BAddC(IF a = <<>> THEN <<>> ELSE Tail(a),
                                   IF b = <<>> THEN <<>> ELSE Tail(b),
                                   x \div Base)

\* a - b - c for a >= b + c, before the high zero limbs are cut (BTrim)
RECURSIVE BSubC(_, _, _)
BSubC(a, b, c) ==
    IF a = <<>> THEN <<>>
    ELSE LET x == Head(a) - (IF b = <<>> THEN 0 ELSE Head(b)) - c
         IN  <<x % Base>> \o BSubC(Tail(a), IF b = <<>> THEN <<>> ELSE Tail(b),
                                   IF x < 0 THEN 1 ELSE 0)

\* -1, 0, 1 as a < b, a = b, a > b
BCmp(a, b) ==
    IF Len(a) # Len(b) THEN (IF Len(a) < Len(b) THEN -1 ELSE 1)
    ELSE LET differ == {i \in DOMAIN a : a[i] # b[i]}
         IN  IF differ = {} THEN 0
             ELSE LET k == CHOOSE i \in differ : \A j \in differ : j <= i
                  IN  IF a[k] < b[k] THEN -1 ELSE 1

\* a * k + c for a limb k and a carry c below Base
RECURSIVE BMulLimb(_, _, _)
BMulLimb(a, k, c) ==
    IF a = <<>> THEN (IF c = 0 THEN <<>> ELSE <<c>>)
    ELSE LET x == Head(a) * k + c
         IN  <<x % Base>> \o BMulLimb(Tail(a), k, x \div Base)

RECURSIVE BMul(_, _)
BMul(a, b) ==
    IF a = <<>> \/ b = <<>> THEN <<>>
    ELSE BAddC(BTrim(BMulLimb(b, Head(a), 0)),
               IF Tail(a) = <<>> THEN <<>> ELSE <<0>> \o BMul(Tail(a), b), 0)

\* a * 2^k, a \div 2^k and a % 2^k
BShl(a, k) ==
    LET L == k \div 15
        t == k % 15
        lo(x) == (x % Pow2(15 - t)) * Pow2(t)
        hi(x) == x \div Pow2(15 - t)
    IN  BTrim([i \in 1..(Len(a) + L + 1) |->
                 (IF L < i /\ i <= Len(a) + L THEN lo(a[i - L]) ELSE 0)
                 + (IF L + 1 < i THEN hi(a[i - L - 1]) ELSE 0)])

BShr(a, k) ==
    LET L == k \div 15
        t == k % 15
    IN  IF L >= Len(a) THEN <<>>
        ELSE BTrim([i \in 1..(Len(a) - L) |->
                       a[i + L] \div Pow2(t)
                       + (IF i + L < Len(a)
                          THEN (a[i + L + 1] % Pow2(t)) * Pow2(15 - t) ELSE 0)])

BLow(a, k) ==
    LET L == k \div 15
        t == k % 15
    IN  IF L >= Len(a) THEN a
        ELSE BTrim([i \in 1..(L + 1) |-> IF i <= L THEN a[i] ELSE a[i] % Pow2(t)])

\* the number of bits of a, 0 for 0
BBitLen(a) ==
    IF a = <<>> THEN 0
    ELSE 15 * (Len(a) - 1)
         + (CHOOSE k \in 1..15 : Pow2(k - 1) <= a[Len(a)] /\ a[Len(a)] < Pow2(k))

\* bit i of a, bit 0 the lowest
BBit(a, i) ==
    IF i \div 15 + 1 > Len(a) THEN 0 ELSE (a[i \div 15 + 1] \div Pow2(i % 15)) % 2

\* the number of zero bits below the lowest one bit of a # 0
BTrailingZeros(a) ==
    LET j == CHOOSE i \in DOMAIN a : a[i] # 0 /\ \A h \in 1..(i - 1) : a[h] = 0
        t == CHOOSE u \in 0..14 : a[j] % Pow2(u) = 0 /\ (a[j] \div Pow2(u)) % 2 = 1
    IN  15 * (j - 1) + t

\* Division by one limb d, the limbs j..1 of a coming down one by one.
RECURSIVE BDivModLimb(_, _, _, _, _)
BDivModLimb(a, d, j, q, r) ==
    IF j = 0 THEN [q |-> BTrim(q), r |-> BFromInt(r)]
    ELSE BDivModLimb(a, d, j - 1, <<(r * Base + a[j]) \div d>> \o q,
                     (r * Base + a[j]) % d)

\* Long division by b of two limbs or more whose highest limb is 2^14 or
\* more, the limbs j..1 of a coming down into the remainder one by one: the
\* next limb of the quotient is the quotient of the two highest limbs of the
\* remainder by the highest limb of b, or up to 2 less.
RECURSIVE BDivModLimbs(_, _, _, _)
BDivModLimbs(a, b, j, qr) ==
    IF j = 0 \/ Len(qr.q) < 0 THEN [q |-> BTrim(qr.q), r |-> qr.r]
    ELSE LET n   == Len(b)
             r   == BTrim(<<a[j]>> \o qr.r)
             top == (IF Len(r) > n THEN r[n + 1] * Base ELSE 0)
                    + (IF Len(r) >= n THEN r[n] ELSE 0)
             est == IF top \div b[n] >= Base THEN Base - 1 ELSE top \div b[n]
             fits(k) == BCmp(BTrim(BMulLimb(b, k, 0)), r) <= 0
             d   == CHOOSE k \in {est - 2, est - 1, est} \cap Nat :
                        fits(k) /\ (k = est \/ ~fits(k + 1))
         IN  BDivModLimbs(a, b, j - 1,
                          [q |-> <<d>> \o qr.q,
                           r |-> BTrim(BSubC(r, BTrim(BMulLimb(b, d, 0)), 0))])

\* a \div b and a % b
BDivMod(a, b) ==
    LET up == 15 * Len(b) - BBitLen(b)
        Down(qr) == [q |-> qr.q, r |-> BShr(qr.r, up)]
    IN  IF Len(b) = 1 THEN BDivModLimb(a, b[1], Len(a), <<>>, 0)
        ELSE Down(BDivModLimbs(BShl(a, up), BShl(b, up), Len(BShl(a, up)),
                               [q |-> <<>>, r |-> <<>>]))

\* The double nearest to s * (N / D) * 2^x (D > 0), a tie going to the even
\* mantissa: N / D is scaled into [2^52, 2^54), divided, and a quotient of
\* 54 bits loses its last bit.  The mantissa is kept odd.
Round53(s, N, D, x) ==
    LET Pack(m, e) ==
            LET Odd(tz) == [s |-> s, m |-> BShr(m, tz), e |-> e + tz]
            IN  Odd(BTrailingZeros(m))
        Nearest(e0, den, qr) ==
            LET Up(wide, twice) ==
                    IF wide
                    THEN BBit(qr.q, 0) = 1
                         /\ (qr.r # <<>> \/ BBit(qr.q, 1) = 1)
                    ELSE twice > 0 \/ (twice = 0 /\ BBit(qr.q, 0) = 1)
                Sum(wide, q, up) ==
                    Pack(IF up THEN BAddC(q, <<1>>, 0) ELSE q,
                         e0 + x + (IF wide THEN 1 ELSE 0))
                Cut(wide) ==
                    Sum(wide, IF wide THEN BShr(qr.q, 1) ELSE qr.q,
                        Up(wide, BCmp(BAddC(qr.r, qr.r, 0), den)))
            IN  Cut(BBitLen(qr.q) = 54)
        Divide(e0, den) ==
            Nearest(e0, den,
                    IF e0 > 0 /\ D = <<1>>
                    THEN [q |-> BShr(N, e0), r |-> BLow(N, e0)]
                    ELSE BDivMod(IF e0 < 0 THEN BShl(N, -e0) ELSE N, den))
        Scale(e0) == Divide(e0, IF e0 > 0 THEN BShl(D, e0) ELSE D)
    IN  IF N = <<>> THEN [s |-> 1, m |-> <<>>, e |-> 0]
        ELSE Scale(BBitLen(N) - BBitLen(D) - 53)

\* float(n / d) of a literal or of an input given as a fraction
DFromRat(a) ==
    Round53(IF a.n < 0 THEN -1 ELSE 1, BFromInt(Abs(a.n)), BFromInt(a.d), 0)

\* a + b
DAdd(a, b) ==
    LET e  == IF a.e < b.e THEN a.e ELSE b.e
        ma == BShl(a.m, a.e - e)
        mb == BShl(b.m, b.e - e)
        c  == BCmp(ma, mb)
    IN  Round53(IF a.s = b.s \/ c > 0 THEN a.s ELSE b.s,
                IF a.s = b.s THEN BAddC(ma, mb, 0)
                ELSE IF c = 0 THEN <<>>
                ELSE IF c > 0 THEN BTrim(BSubC(ma, mb, 0))
                ELSE BTrim(BSubC(mb, ma, 0)),
                <<1>>, e)

\* a - b
DSub(a, b) == DAdd(a, [b EXCEPT !.s = -b.s])

\* a * b
DMul(a, b) == Round53(a.s * b.s, BMul(a.m, b.m), <<1>>, a.e + b.e)

\* a / b
DDiv(a, b) == Round53(a.s * b.s, a.m, b.m, a.e - b.e)

\* a < b
DLt(a, b) ==
    LET Negative(c) == c.m # <<>> /\ c.s = -1
    IN  Negative(DSub(a, b))

\* round(a, ndigits) of a double: the multiple of 10^-ndigits nearest to the
\* value of the double, an exact tie going to the even one.
DRound(a, ndigits) ==
    LET Tenths(num, k) ==
            LET Nearest(q, twice) ==
                    Rat(a.s * (BToInt(q)
                               + (IF twice > 0 \/ (twice = 0 /\ BBit(q, 0) = 1)
                                  THEN 1 ELSE 0)),
                        Pow10(ndigits))
            IN  Nearest(BShr(num, k),
                        BCmp(BAddC(BLow(num, k), BLow(num, k), 0),
                             BShl(<<1>>, k)))
    IN  Tenths(BShl(BMul(a.m, BFromInt(Pow10(ndigits))),
                    IF a.e > 0 THEN a.e ELSE 0),
               IF a.e < 0 THEN -a.e ELSE 0)

\* int(a - b) of two floats given as fractions.  Where the difference of
\* the fractions is a whole number and one of them is not a double, the
\* difference of the doubles decides, which can fall short of it.
PyIntSub(a, b) ==
    LET IsDouble(x) == \E k \in 0..30 : x.d = Pow2(k)
        Trunc(c) ==
            c.s * BToInt(IF c.e >= 0 THEN BShl(c.m, c.e) ELSE BShr(c.m, -c.e))
    IN  IF FSub(a, b).d = 1 /\ ~(IsDouble(a) /\ IsDouble(b))
        THEN Trunc(DSub(DFromRat(a), DFromRat(b)))
        ELSE PyInt(FSub(a, b))

\* The fraction lies exactly half way between two multiples of
\* 10^-ndigits.
IsTie(a, ndigits) == 2 * (((Abs(a.n) % a.d) * Pow10(ndigits)) % a.d) = a.d

\* round(x, ndigits) of the float x = n / d: the nearest multiple of
\* 10^-ndigits.  Where the fraction is a tie the double decides, which lies
\* on one side of it unless the fraction is a double itself, when the tie
\* goes to the even multiple.
PyRound(a, ndigits) ==
    LET p     == Pow10(ndigits)
        sgn   == IF a.n < 0 THEN -1 ELSE 1
        whole == Abs(a.n) \div a.d
        part  == (Abs(a.n) % a.d) * p
        q     == whole * p + part \div a.d
        rem   == part % a.d
    IN  IF IsTie(a, ndigits) THEN DRound(DFromRat(a), ndigits)
        ELSE Rat(sgn * (IF 2 * rem > a.d THEN q + 1 ELSE q), p)

\* Python's None where a float is expected, and where a str is expected.
NoneF == [n |-> 0, d |-> 0]
NoneS == <<"None">>

\* Truth value of an Optional[float] / Optional[str] in an `if`.
TruthyF(x) == x # NoneF /\ x.n # 0
TruthyS(s) == s # NoneS /\ s # <<>>

(* ------------------------------------------------------------------ *)
(* Strings                                                              *)
(* ------------------------------------------------------------------ *)

\* A string is a sequence of characters, a character a string of its own: an
\* ASCII character is itself, every other character is named by its code
\* point in four to six hexadecimal digits ("U+00C9" is the letter E with
\* acute; so is the grave accent, "U+0060").

\* The case tables of Unicode 14.0 that str.lower() reads, a character by its
\* code point, each table in rising order.  chr, ord: the characters
\* U+0020..U+007E and their code points; hex, digit: the hexadecimal digits
\* and their values.  lower: <<first, last, step, delta>>, the lower case of
\* first, first + step, ..., last is the character delta further on; a
\* character outside the table is its own lower case, U+0130 and U+03A3
\* apart (Lower).  cased, case_ignorable: <<first, last>>, the characters
\* with the properties Cased and Case_Ignorable.
Unicode ==
    LET below == " !\"#$%&'()*+,-./0123456789:;<=>?@ABCDEFGHIJKLMNOPQRSTUVWXYZ[\\]^_"
        above == "abcdefghijklmnopqrstuvwxyz{|}~"
        chr   == [n \in 32..126 |->
                     IF n < 96 THEN SubSeq(below, n - 31, n - 31)
                     ELSE IF n = 96 THEN "U+0060"
                     ELSE SubSeq(above, n - 96, n - 96)]
        hex   == [k \in 0..15 |-> SubSeq("0123456789ABCDEF", k + 1, k + 1)]
    IN
    [chr |-> chr,
     ord |-> [c \in {chr[n] : n \in DOMAIN chr} |->
                 CHOOSE n \in DOMAIN chr : chr[n] = c],
     hex |-> hex,
     digit |-> [c \in {hex[k] : k \in DOMAIN hex} |->
                   CHOOSE k \in DOMAIN hex : hex[k] = c],
     lower |-> <<
        <<65, 90, 1, 32>>, <<192, 214, 1, 32>>, <<216, 222, 1, 32>>,
        <<256, 302, 2, 1>>, <<306, 310, 2, 1>>, <<313, 327, 2, 1>>,
        <<330, 374, 2, 1>>, <<376, 376, 1, -121>>, <<377, 381, 2, 1>>,
        <<385, 385, 1, 210>>, <<386, 388, 2, 1>>, <<390, 390, 1, 206>>,
        <<391, 391, 1, 1>>, <<393, 394, 1, 205>>, <<395, 395, 1, 1>>,
        <<398, 398, 1, 79>>, <<399, 399, 1, 202>>, <<400, 400, 1, 203>>,
        <<401, 401, 1, 1>>, <<403, 403, 1, 205>>, <<404, 404, 1, 207>>,
        <<406, 406, 1, 211>>, <<407, 407, 1, 209>>, <<408, 408, 1, 1>>,
        <<412, 412, 1, 211>>, <<413, 413, 1, 213>>, <<415, 415, 1, 214>>,
        <<416, 420, 2, 1>>, <<422, 422, 1, 218>>, <<423, 423, 1, 1>>,
        <<425, 425, 1, 218>>, <<428, 428, 1, 1>>, <<430, 430, 1, 218>>,
        <<431, 431, 1, 1>>, <<433, 434, 1, 217>>, <<435, 437, 2, 1>>,
        <<439, 439, 1, 219>>, <<440, 440, 1, 1>>, <<444, 444, 1, 1>>,
        <<452, 452, 1, 2>>, <<453, 453, 1, 1>>, <<455, 455, 1, 2>>,
        <<456, 456, 1, 1>>, <<458, 458, 1, 2>>, <<459, 475, 2, 1>>,
        <<478, 494, 2, 1>>, <<497, 497, 1, 2>>, <<498, 500, 2, 1>>,
        <<502, 502, 1, -97>>, <<503, 503, 1, -56>>, <<504, 542, 2, 1>>,
        <<544, 544, 1, -130>>, <<546, 562, 2, 1>>, <<570, 570, 1, 10795>>,
        <<571, 571, 1, 1>>, <<573, 573, 1, -163>>, <<574, 574, 1, 10792>>,
        <<577, 577, 1, 1>>, <<579, 579, 1, -195>>, <<580, 580, 1, 69>>,
        <<581, 581, 1, 71>>, <<582, 590, 2, 1>>, <<880, 882, 2, 1>>,
        <<886, 886, 1, 1>>, <<895, 895, 1, 116>>, <<902, 902, 1, 38>>,
        <<904, 906, 1, 37>>, <<908, 908, 1, 64>>, <<910, 911, 1, 63>>,
        <<913, 929, 1, 32>>, <<931, 939, 1, 32>>, <<975, 975, 1, 8>>,
        <<984, 1006, 2, 1>>, <<1012, 1012, 1, -60>>, <<1015, 1015, 1, 1>>,
        <<1017, 1017, 1, -7>>, <<1018, 1018, 1, 1>>, <<1021, 1023, 1, -130>>,
        <<1024, 1039, 1, 80>>, <<1040, 1071, 1, 32>>, <<1120, 1152, 2, 1>>,
        <<1162, 1214, 2, 1>>, <<1216, 1216, 1, 15>>, <<1217, 1229, 2, 1>>,
        <<1232, 1326, 2, 1>>, <<1329, 1366, 1, 48>>, <<4256, 4293, 1, 7264>>,
        <<4295, 4295, 1, 7264>>, <<4301, 4301, 1, 7264>>, <<5024, 5103, 1, 38864>>,
        <<5104, 5109, 1, 8>>, <<7312, 7354, 1, -3008>>, <<7357, 7359, 1, -3008>>,
        <<7680, 7828, 2, 1>>, <<7838, 7838, 1, -7615>>, <<7840, 7934, 2, 1>>,
        <<7944, 7951, 1, -8>>, <<7960, 7965, 1, -8>>, <<7976, 7983, 1, -8>>,
        <<7992, 7999, 1, -8>>, <<8008, 8013, 1, -8>>, <<8025, 8031, 2, -8>>,
        <<8040, 8047, 1, -8>>, <<8072, 8079, 1, -8>>, <<8088, 8095, 1, -8>>,
        <<8104, 8111, 1, -8>>, <<8120, 8121, 1, -8>>, <<8122, 8123, 1, -74>>,
        <<8124, 8124, 1, -9>>, <<8136, 8139, 1, -86>>, <<8140, 8140, 1, -9>>,
        <<8152, 8153, 1, -8>>, <<8154, 8155, 1, -100>>, <<8168, 8169, 1, -8>>,
        <<8170, 8171, 1, -112>>, <<8172, 8172, 1, -7>>, <<8184, 8185, 1, -128>>,
        <<8186, 8187, 1, -126>>, <<8188, 8188, 1, -9>>, <<8486, 8486, 1, -7517>>,
        <<8490, 8490, 1, -8383>>, <<8491, 8491, 1, -8262>>, <<8498, 8498, 1, 28>>,
        <<8544, 8559, 1, 16>>, <<8579, 8579, 1, 1>>, <<9398, 9423, 1, 26>>,
        <<11264, 11311, 1, 48>>, <<11360, 11360, 1, 1>>, <<11362, 11362, 1, -10743>>,
        <<11363, 11363, 1, -3814>>, <<11364, 11364, 1, -10727>>, <<11367, 11371, 2, 1>>,
        <<11373, 11373, 1, -10780>>, <<11374, 11374, 1, -10749>>, <<11375, 11375, 1, -10783>>,
        <<11376, 11376, 1, -10782>>, <<11378, 11378, 1, 1>>, <<11381, 11381, 1, 1>>,
        <<11390, 11391, 1, -10815>>, <<11392, 11490, 2, 1>>, <<11499, 11501, 2, 1>>,
        <<11506, 11506, 1, 1>>, <<42560, 42604, 2, 1>>, <<42624, 42650, 2, 1>>,
        <<42786, 42798, 2, 1>>, <<42802, 42862, 2, 1>>, <<42873, 42875, 2, 1>>,
        <<42877, 42877, 1, -35332>>, <<42878, 42886, 2, 1>>, <<42891, 42891, 1, 1>>,
        <<42893, 42893, 1, -42280>>, <<42896, 42898, 2, 1>>, <<42902, 42920, 2, 1>>,
        <<42922, 42922, 1, -42308>>, <<42923, 42923, 1, -42319>>, <<42924, 42924, 1, -42315>>,
        <<42925, 42925, 1, -42305>>, <<42926, 42926, 1, -42308>>, <<42928, 42928, 1, -42258>>,
        <<42929, 42929, 1, -42282>>, <<42930, 42930, 1, -42261>>, <<42931, 42931, 1, 928>>,
        <<42932, 42946, 2, 1>>, <<42948, 42948, 1, -48>>, <<42949, 42949, 1, -42307>>,
        <<42950, 42950, 1, -35384>>, <<42951, 42953, 2, 1>>, <<42960, 42960, 1, 1>>,
        <<42966, 42968, 2, 1>>, <<42997, 42997, 1, 1>>, <<65313, 65338, 1, 32>>,
        <<66560, 66599, 1, 40>>, <<66736, 66771, 1, 40>>, <<66928, 66938, 1, 39>>,
        <<66940, 66954, 1, 39>>, <<66956, 66962, 1, 39>>, <<66964, 66965, 1, 39>>,
        <<68736, 68786, 1, 64>>, <<71840, 71871, 1, 32>>, <<93760, 93791, 1, 32>>,
        <<125184, 125217, 1, 34>> >>,
     cased |-> <<
        <<65, 90>>, <<97, 122>>, <<170, 170>>, <<181, 181>>,
        <<186, 186>>, <<192, 214>>, <<216, 246>>, <<248, 442>>,
        <<444, 447>>, <<452, 659>>, <<661, 696>>, <<704, 705>>,
        <<736, 740>>, <<837, 837>>, <<880, 883>>, <<886, 887>>,
        <<890, 893>>, <<895, 895>>, <<902, 902>>, <<904, 906>>,
        <<908, 908>>, <<910, 929>>, <<931, 1013>>, <<1015, 1153>>,
        <<1162, 1327>>, <<1329, 1366>>, <<1376, 1416>>, <<4256, 4293>>,
        <<4295, 4295>>, <<4301, 4301>>, <<4304, 4346>>, <<4349, 4351>>,
        <<5024, 5109>>, <<5112, 5117>>, <<7296, 7304>>, <<7312, 7354>>,
        <<7357, 7359>>, <<7424, 7615>>, <<7680, 7957>>, <<7960, 7965>>,
        <<7968, 8005>>, <<8008, 8013>>, <<8016, 8023>>, <<8025, 8025>>,
        <<8027, 8027>>, <<8029, 8029>>, <<8031, 8061>>, <<8064, 8116>>,
        <<8118, 8124>>, <<8126, 8126>>, <<8130, 8132>>, <<8134, 8140>>,
        <<8144, 8147>>, <<8150, 8155>>, <<8160, 8172>>, <<8178, 8180>>,
        <<8182, 8188>>, <<8305, 8305>>, <<8319, 8319>>, <<8336, 8348>>,
        <<8450, 8450>>, <<8455, 8455>>, <<8458, 8467>>, <<8469, 8469>>,
        <<8473, 8477>>, <<8484, 8484>>, <<8486, 8486>>, <<8488, 8488>>,
        <<8490, 8493>>, <<8495, 8500>>, <<8505, 8505>>, <<8508, 8511>>,
        <<8517, 8521>>, <<8526, 8526>>, <<8544, 8575>>, <<8579, 8580>>,
        <<9398, 9449>>, <<11264, 11492>>, <<11499, 11502>>, <<11506, 11507>>,
        <<11520, 11557>>, <<11559, 11559>>, <<11565, 11565>>, <<42560, 42605>>,
        <<42624, 42653>>, <<42786, 42887>>, <<42891, 42894>>, <<42896, 42954>>,
        <<42960, 42961>>, <<42963, 42963>>, <<42965, 42969>>, <<42997, 42998>>,
        <<43000, 43002>>, <<43824, 43866>>, <<43868, 43880>>, <<43888, 43967>>,
        <<64256, 64262>>, <<64275, 64279>>, <<65313, 65338>>, <<65345, 65370>>,
        <<66560, 66639>>, <<66736, 66771>>, <<66776, 66811>>, <<66928, 66938>>,
        <<66940, 66954>>, <<66956, 66962>>, <<66964, 66965>>, <<66967, 66977>>,
        <<66979, 66993>>, <<66995, 67001>>, <<67003, 67004>>, <<67456, 67456>>,
        <<67459, 67461>>, <<67463, 67504>>, <<67506, 67514>>, <<68736, 68786>>,
        <<68800, 68850>>, <<71840, 71903>>, <<93760, 93823>>, <<119808, 119892>>,
        <<119894, 119964>>, <<119966, 119967>>, <<119970, 119970>>, <<119973, 119974>>,
        <<119977, 119980>>, <<119982, 119993>>, <<119995, 119995>>, <<119997, 120003>>,
        <<120005, 120069>>, <<120071, 120074>>, <<120077, 120084>>, <<120086, 120092>>,
        <<120094, 120121>>, <<120123, 120126>>, <<120128, 120132>>, <<120134, 120134>>,
        <<120138, 120144>>, <<120146, 120485>>, <<120488, 120512>>, <<120514, 120538>>,
        <<120540, 120570>>, <<120572, 120596>>, <<120598, 120628>>, <<120630, 120654>>,
        <<120656, 120686>>, <<120688, 120712>>, <<120714, 120744>>, <<120746, 120770>>,
        <<120772, 120779>>, <<122624, 122633>>, <<122635, 122654>>, <<125184, 125251>>,
        <<127280, 127305>>, <<127312, 127337>>, <<127344, 127369>> >>,
     case_ignorable |-> <<
        <<39, 39>>, <<46, 46>>, <<58, 58>>, <<94, 94>>,
        <<96, 96>>, <<168, 168>>, <<173, 173>>, <<175, 175>>,
        <<180, 180>>, <<183, 184>>, <<688, 879>>, <<884, 885>>,
        <<890, 890>>, <<900, 901>>, <<903, 903>>, <<1155, 1161>>,
        <<1369, 1369>>, <<1375, 1375>>, <<1425, 1469>>, <<1471, 1471>>,
        <<1473, 1474>>, <<1476, 1477>>, <<1479, 1479>>, <<1524, 1524>>,
        <<1536, 1541>>, <<1552, 1562>>, <<1564, 1564>>, <<1600, 1600>>,
        <<1611, 1631>>, <<1648, 1648>>, <<1750, 1757>>, <<1759, 1768>>,
        <<1770, 1773>>, <<1807, 1807>>, <<1809, 1809>>, <<1840, 1866>>,
        <<1958, 1968>>, <<2027, 2037>>, <<2042, 2042>>, <<2045, 2045>>,
        <<2070, 2093>>, <<2137, 2139>>, <<2184, 2184>>, <<2192, 2193>>,
        <<2200, 2207>>, <<2249, 2306>>, <<2362, 2362>>, <<2364, 2364>>,
        <<2369, 2376>>, <<2381, 2381>>, <<2385, 2391>>, <<2402, 2403>>,
        <<2417, 2417>>, <<2433, 2433>>, <<2492, 2492>>, <<2497, 2500>>,
        <<2509, 2509>>, <<2530, 2531>>, <<2558, 2558>>, <<2561, 2562>>,
        <<2620, 2620>>, <<2625, 2626>>, <<2631, 2632>>, <<2635, 2637>>,
        <<2641, 2641>>, <<2672, 2673>>, <<2677, 2677>>, <<2689, 2690>>,
        <<2748, 2748>>, <<2753, 2757>>, <<2759, 2760>>, <<2765, 2765>>,
        <<2786, 2787>>, <<2810, 2815>>, <<2817, 2817>>, <<2876, 2876>>,
        <<2879, 2879>>, <<2881, 2884>>, <<2893, 2893>>, <<2901, 2902>>,
        <<2914, 2915>>, <<2946, 2946>>, <<3008, 3008>>, <<3021, 3021>>,
        <<3072, 3072>>, <<3076, 3076>>, <<3132, 3132>>, <<3134, 3136>>,
        <<3142, 3144>>, <<3146, 3149>>, <<3157, 3158>>, <<3170, 3171>>,
        <<3201, 3201>>, <<3260, 3260>>, <<3263, 3263>>, <<3270, 3270>>,
        <<3276, 3277>>, <<3298, 3299>>, <<3328, 3329>>, <<3387, 3388>>,
        <<3393, 3396>>, <<3405, 3405>>, <<3426, 3427>>, <<3457, 3457>>,
        <<3530, 3530>>, <<3538, 3540>>, <<3542, 3542>>, <<3633, 3633>>,
        <<3636, 3642>>, <<3654, 3662>>, <<3761, 3761>>, <<3764, 3772>>,
        <<3782, 3782>>, <<3784, 3789>>, <<3864, 3865>>, <<3893, 3893>>,
        <<3895, 3895>>, <<3897, 3897>>, <<3953, 3966>>, <<3968, 3972>>,
        <<3974, 3975>>, <<3981, 3991>>, <<3993, 4028>>, <<4038, 4038>>,
        <<4141, 4144>>, <<4146, 4151>>, <<4153, 4154>>, <<4157, 4158>>,
        <<4184, 4185>>, <<4190, 4192>>, <<4209, 4212>>, <<4226, 4226>>,
        <<4229, 4230>>, <<4237, 4237>>, <<4253, 4253>>, <<4348, 4348>>,
        <<4957, 4959>>, <<5906, 5908>>, <<5938, 5939>>, <<5970, 5971>>,
        <<6002, 6003>>, <<6068, 6069>>, <<6071, 6077>>, <<6086, 6086>>,
        <<6089, 6099>>, <<6103, 6103>>, <<6109, 6109>>, <<6155, 6159>>,
        <<6211, 6211>>, <<6277, 6278>>, <<6313, 6313>>, <<6432, 6434>>,
        <<6439, 6440>>, <<6450, 6450>>, <<6457, 6459>>, <<6679, 6680>>,
        <<6683, 6683>>, <<6742, 6742>>, <<6744, 6750>>, <<6752, 6752>>,
        <<6754, 6754>>, <<6757, 6764>>, <<6771, 6780>>, <<6783, 6783>>,
        <<6823, 6823>>, <<6832, 6862>>, <<6912, 6915>>, <<6964, 6964>>,
        <<6966, 6970>>, <<6972, 6972>>, <<6978, 6978>>, <<7019, 7027>>,
        <<7040, 7041>>, <<7074, 7077>>, <<7080, 7081>>, <<7083, 7085>>,
        <<7142, 7142>>, <<7144, 7145>>, <<7149, 7149>>, <<7151, 7153>>,
        <<7212, 7219>>, <<7222, 7223>>, <<7288, 7293>>, <<7376, 7378>>,
        <<7380, 7392>>, <<7394, 7400>>, <<7405, 7405>>, <<7412, 7412>>,
        <<7416, 7417>>, <<7468, 7530>>, <<7544, 7544>>, <<7579, 7679>>,
        <<8125, 8125>>, <<8127, 8129>>, <<8141, 8143>>, <<8157, 8159>>,
        <<8173, 8175>>, <<8189, 8190>>, <<8203, 8207>>, <<8216, 8217>>,
        <<8228, 8228>>, <<8231, 8231>>, <<8234, 8238>>, <<8288, 8292>>,
        <<8294, 8303>>, <<8305, 8305>>, <<8319, 8319>>, <<8336, 8348>>,
        <<8400, 8432>>, <<11388, 11389>>, <<11503, 11505>>, <<11631, 11631>>,
        <<11647, 11647>>, <<11744, 11775>>, <<11823, 11823>>, <<12293, 12293>>,
        <<12330, 12333>>, <<12337, 12341>>, <<12347, 12347>>, <<12441, 12446>>,
        <<12540, 12542>>, <<40981, 40981>>, <<42232, 42237>>, <<42508, 42508>>,
        <<42607, 42610>>, <<42612, 42621>>, <<42623, 42623>>, <<42652, 42655>>,
        <<42736, 42737>>, <<42752, 42785>>, <<42864, 42864>>, <<42888, 42890>>,
        <<42994, 42996>>, <<43000, 43001>>, <<43010, 43010>>, <<43014, 43014>>,
        <<43019, 43019>>, <<43045, 43046>>, <<43052, 43052>>, <<43204, 43205>>,
        <<43232, 43249>>, <<43263, 43263>>, <<43302, 43309>>, <<43335, 43345>>,
        <<43392, 43394>>, <<43443, 43443>>, <<43446, 43449>>, <<43452, 43453>>,
        <<43471, 43471>>, <<43493, 43494>>, <<43561, 43566>>, <<43569, 43570>>,
        <<43573, 43574>>, <<43587, 43587>>, <<43596, 43596>>, <<43632, 43632>>,
        <<43644, 43644>>, <<43696, 43696>>, <<43698, 43700>>, <<43703, 43704>>,
        <<43710, 43711>>, <<43713, 43713>>, <<43741, 43741>>, <<43756, 43757>>,
        <<43763, 43764>>, <<43766, 43766>>, <<43867, 43871>>, <<43881, 43883>>,
        <<44005, 44005>>, <<44008, 44008>>, <<44013, 44013>>, <<64286, 64286>>,
        <<64434, 64450>>, <<65024, 65039>>, <<65043, 65043>>, <<65056, 65071>>,
        <<65106, 65106>>, <<65109, 65109>>, <<65279, 65279>>, <<65287, 65287>>,
        <<65294, 65294>>, <<65306, 65306>>, <<65342, 65342>>, <<65344, 65344>>,
        <<65392, 65392>>, <<65438, 65439>>, <<65507, 65507>>, <<65529, 65531>>,
        <<66045, 66045>>, <<66272, 66272>>, <<66422, 66426>>, <<67456, 67461>>,
        <<67463, 67504>>, <<67506, 67514>>, <<68097, 68099>>, <<68101, 68102>>,
        <<68108, 68111>>, <<68152, 68154>>, <<68159, 68159>>, <<68325, 68326>>,
        <<68900, 68903>>, <<69291, 69292>>, <<69446, 69456>>, <<69506, 69509>>,
        <<69633, 69633>>, <<69688, 69702>>, <<69744, 69744>>, <<69747, 69748>>,
        <<69759, 69761>>, <<69811, 69814>>, <<69817, 69818>>, <<69821, 69821>>,
        <<69826, 69826>>, <<69837, 69837>>, <<69888, 69890>>, <<69927, 69931>>,
        <<69933, 69940>>, <<70003, 70003>>, <<70016, 70017>>, <<70070, 70078>>,
        <<70089, 70092>>, <<70095, 70095>>, <<70191, 70193>>, <<70196, 70196>>,
        <<70198, 70199>>, <<70206, 70206>>, <<70367, 70367>>, <<70371, 70378>>,
        <<70400, 70401>>, <<70459, 70460>>, <<70464, 70464>>, <<70502, 70508>>,
        <<70512, 70516>>, <<70712, 70719>>, <<70722, 70724>>, <<70726, 70726>>,
        <<70750, 70750>>, <<70835, 70840>>, <<70842, 70842>>, <<70847, 70848>>,
        <<70850, 70851>>, <<71090, 71093>>, <<71100, 71101>>, <<71103, 71104>>,
        <<71132, 71133>>, <<71219, 71226>>, <<71229, 71229>>, <<71231, 71232>>,
        <<71339, 71339>>, <<71341, 71341>>, <<71344, 71349>>, <<71351, 71351>>,
        <<71453, 71455>>, <<71458, 71461>>, <<71463, 71467>>, <<71727, 71735>>,
        <<71737, 71738>>, <<71995, 71996>>, <<71998, 71998>>, <<72003, 72003>>,
        <<72148, 72151>>, <<72154, 72155>>, <<72160, 72160>>, <<72193, 72202>>,
        <<72243, 72248>>, <<72251, 72254>>, <<72263, 72263>>, <<72273, 72278>>,
        <<72281, 72283>>, <<72330, 72342>>, <<72344, 72345>>, <<72752, 72758>>,
        <<72760, 72765>>, <<72767, 72767>>, <<72850, 72871>>, <<72874, 72880>>,
        <<72882, 72883>>, <<72885, 72886>>, <<73009, 73014>>, <<73018, 73018>>,
        <<73020, 73021>>, <<73023, 73029>>, <<73031, 73031>>, <<73104, 73105>>,
        <<73109, 73109>>, <<73111, 73111>>, <<73459, 73460>>, <<78896, 78904>>,
        <<92912, 92916>>, <<92976, 92982>>, <<92992, 92995>>, <<94031, 94031>>,
        <<94095, 94111>>, <<94176, 94177>>, <<94179, 94180>>, <<110576, 110579>>,
        <<110581, 110587>>, <<110589, 110590>>, <<113821, 113822>>, <<113824, 113827>>,
        <<118528, 118573>>, <<118576, 118598>>, <<119143, 119145>>, <<119155, 119170>>,
        <<119173, 119179>>, <<119210, 119213>>, <<119362, 119364>>, <<121344, 121398>>,
        <<121403, 121452>>, <<121461, 121461>>, <<121476, 121476>>, <<121499, 121503>>,
        <<121505, 121519>>, <<122880, 122886>>, <<122888, 122904>>, <<122907, 122913>>,
        <<122915, 122916>>, <<122918, 122922>>, <<123184, 123197>>, <<123566, 123566>>,
        <<123628, 123631>>, <<125136, 125142>>, <<125252, 125259>>, <<127995, 127999>>,
        <<917505, 917505>>, <<917536, 917631>>, <<917760, 917999>> >>]

\* str.lower(), Unicode's full lower-casing, character by character: U+0130
\* (I with dot above) gives the two characters i, U+0307 (combining dot
\* above); U+03A3 (capital sigma) gives U+03C2 (final sigma) where a cased
\* character stands before it and none after it, case-ignorable characters
\* skipped on both sides, and U+03C3 (sigma) elsewhere; every other
\* character gives the one character the table names, or itself.
Lower(s) ==
    LET With(unicode) ==
          LET RECURSIVE Hex(_, _)
              Hex(c, k) ==
                  IF k < 3 THEN 0
                  ELSE 16 * Hex(c, k - 1) + unicode.digit[SubSeq(c, k, k)]
              Ord(c) ==
                  IF Len(c) = 1 THEN unicode.ord[c] ELSE Hex(c, Len(c))
              RECURSIVE HexOf(_, _)
              HexOf(n, digits) ==
                  IF digits <= 0 /\ n = 0 THEN ""
                  ELSE HexOf(n \div 16, digits - 1) \o unicode.hex[n % 16]
              Chr(n) ==
                  IF n >= 32 /\ n <= 126 THEN unicode.chr[n]
                  ELSE "U+" \o HexOf(n, 4)
              RECURSIVE Row(_, _, _, _)
              Row(table, n, lo, hi) ==
                  IF lo > hi THEN lo - 1
                  ELSE IF table[(lo + hi) \div 2][1] <= n
                  THEN Row(table, n, (lo + hi) \div 2 + 1, hi)
                  ELSE Row(table, n, lo, (lo + hi) \div 2 - 1)
              Within(table, n, row) == row > 0 /\ n <= table[row][2]
              RowOf(table, n) ==
                  IF n < table[2][1] THEN IF n < table[1][1] THEN 0 ELSE 1
                  ELSE Row(table, n, 2, Len(table))
              In(table, n) == Within(table, n, RowOf(table, n))
              FinalSigma(i) ==
                  LET NotIgnorable(j) == ~In(unicode.case_ignorable, Ord(s[j]))
                      before == {j \in 1..(i - 1) : NotIgnorable(j)}
                      after  == {j \in (i + 1)..Len(s) : NotIgnorable(j)}
                      last   == CHOOSE j \in before : \A k \in before : k <= j
                      next   == CHOOSE j \in after : \A k \in after : j <= k
                  IN  /\ before # {}
                      /\ In(unicode.cased, Ord(s[last]))
                      /\ after = {} \/ ~In(unicode.cased, Ord(s[next]))
              ToLower(c, n, table, row) ==
                  IF Within(table, n, row)
                     /\ (n - table[row][1]) % table[row][3] = 0
                  THEN Chr(n + table[row][4])
                  ELSE c
              LowerChar(i, n) ==
                  IF n = 304 THEN <<"i", "U+0307">>
                  ELSE IF n = 931
                  THEN IF FinalSigma(i) THEN <<"U+03C2">> ELSE <<"U+03C3">>
                  ELSE <<ToLower(s[i], n, unicode.lower,
                                 RowOf(unicode.lower, n))>>
              RECURSIVE LowerFrom(_)
              LowerFrom(i) ==
                  IF i > Len(s) THEN <<>>
                  ELSE LowerChar(i, Ord(s[i])) \o LowerFrom(i + 1)
          IN  LowerFrom(1)
    IN  With(Unicode)

\* The strings, by name: the keys of FOOD_CLASSES, the keys and values of the
\* alias dict, and labels a detector may give (other vocabulary, upper-case
\* spellings, and 'CAF\u00c9', '\u0130', 'PA\u03a3', 'MIL\u212a', whose lower
\* case is 'caf\u00e9', 'i\u0307', 'pa\u03c2', 'milk').
Str ==
    [apple |-> <<"a", "p", "p", "l", "e">>,
     banana |-> <<"b", "a", "n", "a", "n", "a">>,
     orange |-> <<"o", "r", "a", "n", "g", "e">>,
     pizza |-> <<"p", "i", "z", "z", "a">>,
     hamburger |-> <<"h", "a", "m", "b", "u", "r", "g", "e", "r">>,
     sandwich |-> <<"s", "a", "n", "d", "w", "i", "c", "h">>,
     salad |-> <<"s", "a", "l", "a", "d">>,
     rice |-> <<"r", "i", "c", "e">>,
     pasta |-> <<"p", "a", "s", "t", "a">>,
     chicken |-> <<"c", "h", "i", "c", "k", "e", "n">>,
     steak |-> <<"s", "t", "e", "a", "k">>,
     fish |-> <<"f", "i", "s", "h">>,
     egg |-> <<"e", "g", "g">>,
     bread |-> <<"b", "r", "e", "a", "d">>,
     cake |-> <<"c", "a", "k", "e">>,
     cookie |-> <<"c", "o", "o", "k", "i", "e">>,
     soup |-> <<"s", "o", "u", "p">>,
     coffee |-> <<"c", "o", "f", "f", "e", "e">>,
     juice |-> <<"j", "u", "i", "c", "e">>,
     milk |-> <<"m", "i", "l", "k">>,
     hot_dog |-> <<"h", "o", "t", " ", "d", "o", "g">>,
     hotdog |-> <<"h", "o", "t", "d", "o", "g">>,
     french_fries |-> <<"f", "r", "e", "n", "c", "h", " ", "f", "r", "i", "e", "s">>,
     fries |-> <<"f", "r", "i", "e", "s">>,
     doughnut |-> <<"d", "o", "u", "g", "h", "n", "u", "t">>,
     donut |-> <<"d", "o", "n", "u", "t">>,
     cup |-> <<"c", "u", "p">>,
     bowl |-> <<"b", "o", "w", "l">>,
     plate |-> <<"p", "l", "a", "t", "e">>,
     Plate |-> <<"P", "l", "a", "t", "e">>,
     PLATE |-> <<"P", "L", "A", "T", "E">>,
     Apple |-> <<"A", "p", "p", "l", "e">>,
     Hot_Dog |-> <<"H", "o", "t", " ", "D", "o", "g">>,
     Mango |-> <<"M", "a", "n", "g", "o">>,
     mango |-> <<"m", "a", "n", "g", "o">>,
     person |-> <<"p", "e", "r", "s", "o", "n">>,
     CAFE_acute |-> <<"C", "A", "F", "U+00C9">>,
     I_dot |-> <<"U+0130">>,
     PAS_sigma |-> <<"P", "A", "U+03A3">>,
     MIL_kelvin |-> <<"M", "I", "L", "U+212A">>]

(* ------------------------------------------------------------------ *)
(* food_detection.py: tables and pure functions                         *)
(* ------------------------------------------------------------------ *)

FOOD_CLASSES ==
       (Str.apple :> [calories_per_100g |-> 52, default_weight |-> 182])
    @@ (Str.banana :> [calories_per_100g |-> 89, default_weight |-> 118])
    @@ (Str.orange :> [calories_per_100g |-> 47, default_weight |-> 131])
    @@ (Str.pizza :> [calories_per_100g |-> 266, default_weight |-> 107])
    @@ (Str.hamburger :> [calories_per_100g |-> 295, default_weight |-> 226])
    @@ (Str.sandwich :> [calories_per_100g |-> 250, default_weight |-> 150])
    @@ (Str.salad :> [calories_per_100g |-> 20, default_weight |-> 200])
    @@ (Str.rice :> [calories_per_100g |-> 130, default_weight |-> 158])
    @@ (Str.pasta :> [calories_per_100g |-> 131, default_weight |-> 140])
    @@ (Str.chicken :> [calories_per_100g |-> 239, default_weight |-> 140])
    @@ (Str.steak :> [calories_per_100g |-> 271, default_weight |-> 221])
    @@ (Str.fish :> [calories_per_100g |-> 206, default_weight |-> 154])
    @@ (Str.egg :> [calories_per_100g |-> 155, default_weight |-> 50])
    @@ (Str.bread :> [calories_per_100g |-> 265, default_weight |-> 30])
    @@ (Str.cake :> [calories_per_100g |-> 257, default_weight |-> 80])
    @@ (Str.cookie :> [calories_per_100g |-> 502, default_weight |-> 30])
    @@ (Str.soup :> [calories_per_100g |-> 40, default_weight |-> 240])
    @@ (Str.coffee :> [calories_per_100g |-> 2, default_weight |-> 240])
    @@ (Str.juice :> [calories_per_100g |-> 45, default_weight |-> 240])
    @@ (Str.milk :> [calories_per_100g |-> 42, default_weight |-> 244])

\* Mutant: an alias whose target is itself an alias, 'cup' -> 'bowl'.
mappings_chained ==
       (Str.hot_dog :> Str.hotdog)
    @@ (Str.french_fries :> Str.fries)
    @@ (Str.doughnut :> Str.donut)
    @@ (Str.cup :> Str.bowl)
    @@ (Str.bowl :> Str.soup)
    @@ (Str.plate :> NoneS)

\* The alias dict built inside _map_to_food_class.
mappings ==
       (Str.hot_dog :> Str.hotdog)
    @@ (Str.french_fries :> Str.fries)
    @@ (Str.doughnut :> Str.donut)
    @@ (Str.cup :> Str.coffee)
    @@ (Str.bowl :> Str.soup)
    @@ (Str.plate :> NoneS)

\* dict.get(key, default)
DictGet(dict, key, default) ==
    IF key \in DOMAIN dict THEN dict[key] ELSE default

\* Mutant: the alias dict never consulted.
map_to_food_class_direct_only(detected_class) ==
    Lower(detected_class)

\* Mutant: a label without an alias comes back as detected, not lowered.
map_to_food_class_label_default(detected_class) ==
    LET detected_lower == Lower(detected_class)
    IN  IF detected_lower \in DOMAIN FOOD_CLASSES
        THEN detected_lower
        ELSE DictGet(mappings, detected_lower, detected_class)

\* Mutant: the alias dict looked up with the label as detected, not lowered.
map_to_food_class_alias_case(detected_class) ==
    LET detected_lower == Lower(detected_class)
    IN  IF detected_lower \in DOMAIN FOOD_CLASSES
        THEN detected_lower
        ELSE DictGet(mappings, detected_class, detected_lower)

\* _map_to_food_class(detected_class)
map_to_food_class(detected_class) ==
    LET detected_lower == Lower(detected_class)
    IN  IF detected_lower \in DOMAIN FOOD_CLASSES
        THEN detected_lower
        ELSE DictGet(mappings, detected_lower, detected_lower)

\* Mutant: a key outside the table weighs nothing.
default_weight_of_no_fallback(food_name) ==
    IF food_name \in DOMAIN FOOD_CLASSES
    THEN Int2F(FOOD_CLASSES[food_name].default_weight)
    ELSE Int2F(0)

\* _estimate_portion: default weight for this food
default_weight_of(food_name) ==
    IF food_name \in DOMAIN FOOD_CLASSES
    THEN Int2F(FOOD_CLASSES[food_name].default_weight)
    ELSE Int2F(100)

typical_ratio == Rat(15, 100)

\* _estimate_portion: area of the box relative to the image.
\* image_shape is numpy's (rows, columns) = (height, width).
area_ratio_of(image_shape, bbox) ==
    LET image_area == image_shape[1] * image_shape[2]
        food_area  == FMul(FSub(bbox[3], bbox[1]), FSub(bbox[4], bbox[2]))
    IN  FDiv(food_area, Int2F(image_area))

\* Mutants of the clamp: the upper bound forgotten; the lower bound forgotten.
clamp_scale_no_upper(scale_factor) == PyMax(Rat(1, 2), scale_factor)
clamp_scale_no_lower(scale_factor) == PyMin(Int2F(2), scale_factor)

\* _estimate_portion: the clamp  max(0.5, min(2.0, scale_factor))
clamp_scale(scale_factor) == PyMax(Rat(1, 2), PyMin(Int2F(2), scale_factor))

\* _estimate_portion: the scale factor after the clamp
scale_factor_of(image_shape, bbox) ==
    clamp_scale(FDiv(area_ratio_of(image_shape, bbox), typical_ratio))

\* _estimate_portion: estimated_weight before the depth stage (unrounded)
geometric_estimate(image_shape, food_name, bbox) ==
    FMul(default_weight_of(food_name), scale_factor_of(image_shape, bbox))

\* _depth_based_estimation, after the depth map is computed: the map enters
\* through normalized_depth = mean(depth in box) / max(depth map).
depth_grams(bbox, normalized_depth) ==
    LET x1 == PyInt(bbox[1])
        y1 == PyInt(bbox[2])
        x2 == PyInt(bbox[3])
        y2 == PyInt(bbox[4])
        area == (x2 - x1) * (y2 - y1)
        volume_factor == FMul(Int2F(area), normalized_depth)
    IN  FMul(volume_factor, Rat(1, 1000))

\* volume_factor * 0.001 in doubles: each operation of lines 256-271 on the
\* doubles of its operands.
depth_grams_double(bbox, normalized_depth) ==
    DMul(DMul(DFromRat(Int2F((PyInt(bbox[3]) - PyInt(bbox[1]))
                             * (PyInt(bbox[4]) - PyInt(bbox[2])))),
              DFromRat(normalized_depth)),
         DFromRat(Rat(1, 1000)))

\* `estimated_grams > 10` (line 273).  Where the product is 10 as a fraction
\* the doubles of lines 264-271 decide.
above_noise(bbox, normalized_depth) ==
    IF depth_grams(bbox, normalized_depth) = Int2F(10)
    THEN DLt(DFromRat(Int2F(10)), depth_grams_double(bbox, normalized_depth))
    ELSE FGt(depth_grams(bbox, normalized_depth), Int2F(10))

\* Mutant: the noise threshold compared with >= instead of >.
depth_based_estimation_ge(bbox, normalized_depth) ==
    LET estimated_grams == depth_grams(bbox, normalized_depth)
    IN  IF FLe(Int2F(10), estimated_grams) THEN estimated_grams ELSE NoneF

\* _depth_based_estimation: `return estimated_grams if estimated_grams > 10
\* else None`
depth_based_estimation(bbox, normalized_depth) ==
    IF above_noise(bbox, normalized_depth)
    THEN depth_grams(bbox, normalized_depth) ELSE NoneF

\* min(a, b) and max(a, b) of two doubles
DMin(a, b) == IF DLt(b, a) THEN b ELSE a
DMax(a, b) == IF DLt(a, b) THEN b ELSE a

\* _estimate_portion in doubles, from the box to estimated_weight before the
\* depth stage: each operation of lines 175-196 on the doubles of its
\* operands.
geometric_estimate_double(image_shape, food_name, bbox) ==
    DMul(DFromRat(default_weight_of(food_name)),
         DMax(DFromRat(Rat(1, 2)),
              DMin(DFromRat(Int2F(2)),
                   DDiv(DDiv(DMul(DSub(DFromRat(bbox[3]), DFromRat(bbox[1])),
                                  DSub(DFromRat(bbox[4]), DFromRat(bbox[2]))),
                             DFromRat(Int2F(image_shape[1] * image_shape[2]))),
                        DFromRat(typical_ratio)))))

\* _estimate_portion in doubles, the value that is rounded: the blend of
\* lines 199-207 on the doubles of its operands.  normalized_depth is NoneF
\* where no depth estimate enters.
estimated_weight_double(estimated_weight, bbox, normalized_depth) ==
    IF normalized_depth = NoneF THEN estimated_weight
    ELSE DDiv(DAdd(estimated_weight,
                   depth_grams_double(bbox, normalized_depth)),
              DFromRat(Int2F(2)))

\* Mutant: the geometric estimate rounded to one decimal before the blend.
blend_rounded_first(estimated_weight, depth_estimate) ==
    IF TruthyF(depth_estimate)
    THEN FDiv(FAdd(PyRound(estimated_weight, 1), depth_estimate), Int2F(2))
    ELSE estimated_weight

\* _estimate_portion: blend with the depth estimate if there is one
blend(estimated_weight, depth_estimate) ==
    IF TruthyF(depth_estimate)
    THEN FDiv(FAdd(estimated_weight, depth_estimate), Int2F(2))
    ELSE estimated_weight

\* round(a, ndigits) of a numpy.float64: numpy multiplies the double by
\* 10^ndigits, rounds the product to the nearest whole number, a tie going
\* to the even one (rint), and divides.
NpRound(a, ndigits) ==
    Rat(DRound(DMul(a, DFromRat(Int2F(Pow10(ndigits)))), 0).n, Pow10(ndigits))

\* The fraction lies within a millionth of a multiple of 10^-ndigits of the
\* middle between two such multiples: only there can the double the program
\* has computed round to another multiple than the fraction does.
NearTie(a, ndigits) ==
    Abs(2 * (((Abs(a.n) % a.d) * Pow10(ndigits)) % a.d) - a.d)
        <= a.d \div 1000000

\* _estimate_portion: the value returned, `round(estimated_weight, 1)`, for
\* a box and the normalized depth of its depth estimate (NoneF where the
\* depth model is missing or failed).  Where a depth estimate was blended in,
\* estimated_weight is a numpy.float64 (the depth map's numbers are numpy's)
\* and numpy rounds it; elsewhere it is a float and Python rounds it.  Near
\* a tie the double the program has computed is the one rounded.
final_portion(image_shape, food_name, bbox, normalized_depth) ==
    LET Rounded(blended, as_double, is_numpy) ==
            IF is_numpy /\ NearTie(blended, 1) THEN NpRound(as_double, 1)
            ELSE IF ~is_numpy /\ IsTie(blended, 1) THEN DRound(as_double, 1)
            ELSE PyRound(blended, 1)
    IN  Rounded(blend(geometric_estimate(image_shape, food_name, bbox),
                      IF normalized_depth = NoneF THEN NoneF
                      ELSE depth_based_estimation(bbox, normalized_depth)),
                estimated_weight_double(
                    geometric_estimate_double(image_shape, food_name, bbox),
                    bbox,
                    IF normalized_depth # NoneF
                       /\ above_noise(bbox, normalized_depth)
                    THEN normalized_depth ELSE NoneF),
                normalized_depth # NoneF /\ above_noise(bbox, normalized_depth))

(* ------------------------------------------------------------------ *)
(* State                                                                *)
(* ------------------------------------------------------------------ *)

VARIABLES
    app_state,          \* app.state: the names of the attributes set on it
    models,             \* ModelLoader.models: name -> handle or "None"
    pc,                 \* per request: where its handler stands
    request,            \* per request: the HTTP request being served
    results,            \* per request: what the detector returned
    ri,                 \* per request: index of the current result object
    bi,                 \* per request: index of the current box in it
    detected_foods,     \* per request: analyze_image's list
    portion_estimates,  \* per request: analyze_image's dict
    food_name,          \* per request: _estimate_portion's argument
    estimated_weight,   \* per request: _estimate_portion's geometric estimate
    estimated_grams,    \* per request: _depth_based_estimation's raw estimate
    normalized_depth,   \* per request: _depth_based_estimation's normalized_depth
    depth_estimate,     \* per request: what _depth_based_estimation returned
    result,             \* per request: what analyze_image returned or raised
    response,           \* per request: the HTTP response
    stages,             \* per request: the stages run so far, in order
    chat_pc,            \* the chat request: where its handler stands
    chat_input,         \* the chat request: message, history, user context
    messages,           \* chat_completion's local, Unbound until assigned
    api_calls,          \* the chat request: requests made to the LLM API
    chat_result,        \* what GenAIService.chat_completion returned or raised
    chat_response       \* the HTTP response of the chat request

analysisVars == <<results, ri, bi, detected_foods, portion_estimates,
                  food_name, estimated_weight, estimated_grams, normalized_depth,
                  depth_estimate, stages>>
chatVars == <<chat_pc, chat_input, messages, api_calls, chat_result,
              chat_response>>
vars == <<chatVars, app_state, models, pc, request, results, ri, bi, detected_foods,
          portion_estimates, food_name, estimated_weight, estimated_grams, normalized_depth,
          depth_estimate, result, response, stages>>

Reqs == DOMAIN pc

(* ------------------------------------------------------------------ *)
(* Inputs                                                               *)
(* ------------------------------------------------------------------ *)

\* Largest number of boxes the detector reports for one image.
MaxBoxes == 2
\* Largest number of result objects the detector returns.
MaxResults == 1

MAX_IMAGE_SIZE == 10485760
allowed_image_types_list == {"image/jpeg", "image/png", "image/webp"}
\* settings.FOOD_RECOGNITION_CONFIDENCE, read by FoodDetectionService.__init__
\* settings.FOOD_RECOGNITION_CONFIDENCE, at its default
FOOD_RECOGNITION_CONFIDENCE == Rat(5, 10)

\* Mutant: the detector left at its own default threshold.
confidence_threshold_detector_default == Rat(25, 100)

\* self.confidence_threshold
confidence_threshold == FOOD_RECOGNITION_CONFIDENCE

NoImage == [decodable |-> FALSE, width |-> 0, height |-> 0]
Img(w, h) == [decodable |-> TRUE, width |-> w, height |-> h]
Images == {NoImage, Img(1000, 1000), Img(600, 500)}

\* Uploads to POST /analyze-image.  `endpoint` is the route the upload came
\* in on, `food_name` the query parameter of the other route.
HttpRequests ==
    [endpoint : {"/analyze-image"},
     content_type : {"image/jpeg", "text/plain"},
     size : {MAX_IMAGE_SIZE, MAX_IMAGE_SIZE + 1},
     image : Images,
     include_portion_estimate : BOOLEAN,
     food_name : {NoneS}]

\* Uploads to POST /portion-estimate, which checks neither type nor size:
\* with and without the name of a food.
PortionRequests ==
    [endpoint : {"/portion-estimate"},
     content_type : {"text/plain"},
     size : {MAX_IMAGE_SIZE + 1},
     image : {NoImage, Img(1000, 1000)},
     include_portion_estimate : {TRUE},
     food_name : {NoneS, Str.apple}]

BBox(x1, y1, x2, y2) == <<x1, y1, x2, y2>>
IBox(x1, y1, x2, y2) == BBox(Int2F(x1), Int2F(y1), Int2F(x2), Int2F(y2))
Det(cls, conf, xyxy) == [cls |-> cls, conf |-> conf, xyxy |-> xyxy]

\* Detector labels: the food keys, the alias keys, other vocabulary,
\* upper-case spellings, labels with letters beyond ASCII, and the empty
\* label.
Labels ==
    DOMAIN FOOD_CLASSES \cup DOMAIN mappings \cup
    {Str.Plate, Str.PLATE, Str.Apple, Str.Hot_Dog, Str.Mango, Str.mango, Str.person,
     Str.CAFE_acute, Str.I_dot, Str.PAS_sigma, Str.MIL_kelvin, <<>>}

\* A box with fractional corners whose geometric estimate for a 100 g food
\* in a 1000 x 1000 image is 52.05 as a fraction: the program's double is
\* 52.050000000000004 and rounds to 52.1.
TieBox == BBox(Rat(1005, 10), Rat(10025, 100), Int2F(213), Rat(79425, 100))

\* Bounding boxes: a grid holding the scenario box (100,100)-(400,400), boxes
\* whose area ratio is exactly 0.5 and 2.0 times the typical ratio, boxes
\* below and above the clamp, zero-width boxes, TieBox, and the box
\* 75 x 975, whose depth estimate at the
\* normalized depth 16/117 is 10 as a fraction and 10.000000000000002 as the
\* program computes it.
Geometries ==
    { IBox(x1, 100, x2, y2) :
        x1 \in {0, 100}, x2 \in {100, 200, 250, 400, 500, 900},
        y2 \in {200, 400, 700} }
    \cup { IBox(300, 300, 300, 500), IBox(0, 0, 250, 300),
           IBox(0, 0, 75, 975), TieBox }

\* Candidate boxes the detector may see in an image.
Candidates ==
    { Det(Str.apple, Rat(9, 10), IBox(100, 100, 400, 400)),
      Det(Str.Plate, Rat(8, 10), IBox(0, 0, 250, 300)),
      Det(Str.Apple, Rat(6, 10), IBox(100, 100, 200, 200)),
      Det(Str.Mango, Rat(87654, 100000), TieBox),
      Det(Str.cup, Rat(3, 10), IBox(0, 100, 500, 700)),
      Det(Str.banana, Rat(55, 100), IBox(300, 300, 300, 500)) }

SeqsUpTo(S, n) == UNION {[1..k -> S] : k \in 0..n}

\* A result object: its boxes attribute is None, or a sequence of boxes.
NoneBoxes == [is_none |-> TRUE, boxes |-> <<>>]
Boxes(bs) == [is_none |-> FALSE, boxes |-> bs]

RECURSIVE CountBoxes(_)
CountBoxes(rs) ==
    IF rs = <<>> THEN 0
    ELSE Len(Head(rs).boxes) + CountBoxes(Tail(rs))

\* The boxes of a sequence of result objects, in the order the loop reads them.
RECURSIVE AllBoxes(_)
AllBoxes(rs) ==
    IF rs = <<>> THEN <<>> ELSE Head(rs).boxes \o AllBoxes(Tail(rs))

\* The ways up to MaxBoxes of the candidates show in one image: each at most
\* once, the boxes in the order of their confidence, falling or rising.
Scenes(cands) ==
    { bs \in SeqsUpTo(cands, MaxBoxes) :
        \/ \A i \in DOMAIN bs, j \in DOMAIN bs :
              i < j => FLt(bs[j].conf, bs[i].conf)
        \/ \A i \in DOMAIN bs, j \in DOMAIN bs :
              i < j => FLt(bs[i].conf, bs[j].conf) }

\* What the detector may find before its confidence filter: a scene, spread
\* over up to MaxResults result objects, any of which may have no boxes.
RawDetections(cands) ==
    LET scenes == Scenes(cands)
    IN  { rs \in SeqsUpTo({NoneBoxes} \cup {Boxes(bs) : bs \in scenes},
                          MaxResults) :
            AllBoxes(rs) \in scenes }

\* Outcomes of one depth-model run: it raises, or its depth map gives this
\* normalized depth (mean depth in the box / maximum depth of the map).
DepthFails == [n |-> -1, d |-> 0]
DepthOutcomes ==
    {DepthFails, Rat(0, 1), Rat(1, 2), Rat(2, 3), Rat(3, 4), Rat(1, 1),
     Rat(16, 117)}

\* One outcome of each kind: the run raises, its estimate is rejected as
\* noise (depth 0), its estimate is blended in (depth 1).
DepthOutcomeKinds == {DepthFails, Rat(0, 1), Rat(1, 1)}

(* ------------------------------------------------------------------ *)
(* model_loader.py                                                      *)
(* ------------------------------------------------------------------ *)

None == "None"

\* ModelLoader.get_model: self.models.get(model_name)
get_model(model_name) ==
    IF model_name \in DOMAIN models THEN models[model_name] ELSE None

\* The detector handle called as food_model(image_np, conf=...): the boxes
\* of confidence >= conf, result object by result object.
food_model(raw, conf) ==
    [i \in DOMAIN raw |->
        IF raw[i].is_none THEN NoneBoxes
        ELSE Boxes(SelectSeq(raw[i].boxes, LAMBDA b : FLe(conf, b.conf)))]

NoRequest ==
    [endpoint |-> "", content_type |-> "", size |-> 0, image |-> NoImage,
     include_portion_estimate |-> FALSE, food_name |-> NoneS]
NoResult == [kind |-> "none"]
NoResponse == [status |-> 0]

(* ------------------------------------------------------------------ *)
(* Chat: inputs of routers/chat.py and services/genai_service.py        *)
(* ------------------------------------------------------------------ *)

DEFAULT_LLM_MODEL == "gpt-4-turbo-preview"
FALLBACK_LLM_MODEL == "gpt-3.5-turbo"

\* user_context['profile']: the key absent, null, or a dictionary.
ProfileAbsent == [kind |-> "absent", firstName |-> ""]
ProfileNull == [kind |-> "null", firstName |-> ""]
Profile(firstName) == [kind |-> "dict", firstName |-> firstName]

Message(role, content) == [role |-> role, content |-> content]

\* MessageInput: texts are sequences of words.
ChatInputs ==
    [message : {<<"hello">>, <<"more">>},
     conversation_history :
        {<<>>, <<Message("user", <<"hi">>), Message("assistant", <<"welcome">>)>>},
     user_context : {ProfileAbsent, ProfileNull, Profile("Ana")}]

NoChatInput ==
    [message |-> <<>>, conversation_history |-> <<>>,
     user_context |-> ProfileAbsent]

\* What one request to the LLM API does: it raises, or it answers with one
\* choice (its content a text or None), with the name of the model that
\* answered (`response.model`, which the API resolves and need not be the
\* name that was asked for) and with or without a usage record.
NoUsage == [is_none |-> TRUE, total_tokens |-> 0]
Usage(n) == [is_none |-> FALSE, total_tokens |-> n]
\* Optional[str] of `choices[0].message.content`: None is not the text
\* 'None'.
NoContent == [is_none |-> TRUE, text |-> <<>>]
Content(text) == [is_none |-> FALSE, text |-> text]
ApiRaises ==
    [raises |-> TRUE, content |-> NoContent, model |-> "", usage |-> NoUsage]
ApiOutcomes ==
    {ApiRaises} \cup
    [raises : {FALSE},
     content : {Content(<<"answer">>), Content(<<"None">>), NoContent},
     model : {DEFAULT_LLM_MODEL, "gpt-4-0125-preview", "gpt-3.5-turbo-0125"},
     usage : {NoUsage, Usage(42)}]

\* `messages` before its assignment at line 53.
Unbound == <<Message("unbound", <<>>)>>

ChatIdle ==
    /\ chat_pc = "idle"
    /\ chat_input = NoChatInput
    /\ messages = Unbound
    /\ api_calls = <<>>
    /\ chat_result = NoResult
    /\ chat_response = NoResponse

Init ==
    /\ app_state = {}
    /\ models = <<>>
    /\ pc = [r \in {1} |-> "idle"]
    /\ request = [r \in {1} |-> NoRequest]
    /\ results = [r \in {1} |-> <<>>]
    /\ ri = [r \in {1} |-> 0]
    /\ bi = [r \in {1} |-> 0]
    /\ detected_foods = [r \in {1} |-> <<>>]
    /\ portion_estimates = [r \in {1} |-> <<>>]
    /\ food_name = [r \in {1} |-> NoneS]
    /\ estimated_weight = [r \in {1} |-> NoneF]
    /\ estimated_grams = [r \in {1} |-> NoneF]
    /\ normalized_depth = [r \in {1} |-> NoneF]
    /\ depth_estimate = [r \in {1} |-> NoneF]
    /\ result = [r \in {1} |-> NoResult]
    /\ response = [r \in {1} |-> NoResponse]
    /\ stages = [r \in {1} |-> <<>>]
    /\ ChatIdle

(* ------------------------------------------------------------------ *)
(* ModelLoader operations                                               *)
(* ------------------------------------------------------------------ *)

NoRequestInFlight == \A r \in Reqs : pc[r] = "idle"

\* The startup of main.py's lifespan: ModelLoader.load_models loads the
\* food recognition model, then the depth model, and the loader is set on
\* app.state.  A failed food model load raises before the depth model is
\* tried and before app.state is written; a failed depth model load
\* registers None.
load_models(food_ok, depth_ok) ==
    /\ NoRequestInFlight
    /\ models' =
         IF food_ok
         THEN ("depth_estimation" :> (IF depth_ok THEN "midas" ELSE None))
              @@ ("food_recognition" :> "yolo") @@ models
         ELSE models
    /\ app_state' = IF food_ok THEN app_state \cup {"model_loader"}
                    ELSE app_state
    /\ UNCHANGED <<chatVars, pc, request, analysisVars, result, response>>

\* The shutdown of main.py's lifespan: ModelLoader.unload_models clears
\* self.models; the loader stays on app.state.
unload_models ==
    /\ NoRequestInFlight
    /\ models # <<>>
    /\ models' = <<>>
    /\ UNCHANGED <<chatVars, app_state, pc, request, analysisVars, result, response>>

(* ------------------------------------------------------------------ *)
(* routers/health.py: readiness_check                                   *)
(* ------------------------------------------------------------------ *)

\* Mutant: ready only when every registered model is loaded.
readiness_check_all_models ==
    IF "model_loader" \notin app_state
    THEN [ready |-> FALSE, reason |-> "Models not initialized"]
    ELSE IF \/ get_model("food_recognition") = None
            \/ get_model("depth_estimation") = None
    THEN [ready |-> FALSE, reason |-> "Food recognition model not loaded"]
    ELSE [ready |-> TRUE, reason |-> ""]

\* GET /health/ready: what the handler answers in the current state (the
\* answer with ready true carries no reason; it is "" here).
readiness_check ==
    IF "model_loader" \notin app_state
    THEN [ready |-> FALSE, reason |-> "Models not initialized"]
    ELSE IF get_model("food_recognition") = None
    THEN [ready |-> FALSE, reason |-> "Food recognition model not loaded"]
    ELSE [ready |-> TRUE, reason |-> ""]

(* ------------------------------------------------------------------ *)
(* routers/food_analysis.py: analyze_food_image, before the analysis    *)
(* ------------------------------------------------------------------ *)

HTTPException(status_code) == [status |-> status_code]

\* POST /analyze-image up to its first suspension: the content type is
\* checked (line 44), then the handler awaits image.read() (line 51).
analyze_food_image(r, req) ==
    /\ pc[r] = "idle"
    /\ req.endpoint = "/analyze-image"
    /\ request' = [request EXCEPT ![r] = req]
    /\ IF req.content_type \notin allowed_image_types_list
       THEN /\ response' = [response EXCEPT ![r] = HTTPException(400)]
            /\ pc' = [pc EXCEPT ![r] = "responded"]
       ELSE /\ pc' = [pc EXCEPT ![r] = "read"]
            /\ UNCHANGED response
    /\ UNCHANGED <<chatVars, app_state, models, analysisVars, result>>

\* POST /portion-estimate up to its first suspension: nothing is checked,
\* the handler awaits image.read() (line 95).  It calls analyze_image with
\* the default include_portion_estimate, which the request record carries.
estimate_portion(r, req) ==
    /\ pc[r] = "idle"
    /\ req.endpoint = "/portion-estimate"
    /\ request' = [request EXCEPT ![r] = req]
    /\ pc' = [pc EXCEPT ![r] = "read"]
    /\ UNCHANGED <<chatVars, app_state, models, analysisVars, result, response>>

\* `if len(contents) > settings.MAX_IMAGE_SIZE`, which only /analyze-image
\* has (line 52).
too_large(req) == req.endpoint = "/analyze-image" /\ req.size > MAX_IMAGE_SIZE

\* `request.app.state.model_loader` (lines 60 and 98) raises AttributeError
\* when the startup never set it.
loader_missing == "model_loader" \notin app_state

\* image.read() has returned and the handler goes on: /analyze-image
\* refuses a large upload; both handlers then take the loader from
\* app.state inside their try, where a missing loader is answered with 500
\* before analyze_image is called; else analyze_image starts.
ReadUpload(r) ==
    /\ pc[r] = "read"
    /\ IF too_large(request[r])
       THEN /\ response' = [response EXCEPT ![r] = HTTPException(400)]
            /\ pc' = [pc EXCEPT ![r] = "responded"]
       ELSE IF loader_missing
       THEN /\ response' = [response EXCEPT ![r] = HTTPException(500)]
            /\ pc' = [pc EXCEPT ![r] = "responded"]
       ELSE /\ pc' = [pc EXCEPT ![r] = "decode"]
            /\ UNCHANGED response
    /\ UNCHANGED <<chatVars, app_state, models, request, analysisVars, result>>

(* ------------------------------------------------------------------ *)
(* FoodDetectionService.analyze_image                                   *)
(* ------------------------------------------------------------------ *)

Stage(name, r, ok) == [stage |-> name, ri |-> ri[r], bi |-> bi[r], ok |-> ok]
Raise(error) == [kind |-> "raise", error |-> error]

\* The record of the detector call: found is what the detector's network
\* came up with, before the detector applied the confidence it was given.
DetectionStage(r, ok, raw) ==
    [stage |-> "detection", ri |-> ri[r], bi |-> bi[r], ok |-> ok, found |-> raw]

\* The record of a depth inference: normalized_depth is what the depth
\* model's map gave for the box (DepthFails when the inference raised).
DepthStage(r, ok, outcome) ==
    [stage |-> "depth", ri |-> ri[r], bi |-> bi[r], ok |-> ok,
     normalized_depth |-> outcome]

\* image_np.shape of the decoded image: (rows, columns)
image_shape(r) == <<request[r].image.height, request[r].image.width>>

\* Mutant: the detector is looked up before the image is decoded.
Decode_after_lookup(r) ==
    /\ pc[r] = "decode"
    /\ IF get_model("food_recognition") = None
       THEN /\ pc' = [pc EXCEPT ![r] = "raised"]
            /\ result' = [result EXCEPT ![r] = Raise("ValueError")]
       ELSE IF request[r].image.decodable
       THEN /\ pc' = [pc EXCEPT ![r] = "get_model"]
            /\ UNCHANGED result
       ELSE /\ pc' = [pc EXCEPT ![r] = "raised"]
            /\ result' = [result EXCEPT ![r] = Raise("UnidentifiedImageError")]
    /\ UNCHANGED <<chatVars, app_state, models, request, analysisVars, response>>

\* Image.open / np.array: an undecodable image raises.
Decode(r) ==
    /\ pc[r] = "decode"
    /\ IF request[r].image.decodable
       THEN /\ pc' = [pc EXCEPT ![r] = "get_model"]
            /\ UNCHANGED result
       ELSE /\ pc' = [pc EXCEPT ![r] = "raised"]
            /\ result' = [result EXCEPT ![r] = Raise("UnidentifiedImageError")]
    /\ UNCHANGED <<chatVars, app_state, models, request, analysisVars, response>>

\* Mutant: the missing detector is not checked for.
food_model_unchecked(handle) == FALSE

\* `if food_model is None`
food_model_missing(handle) == handle = None

\* food_model = get_model('food_recognition'); None raises ValueError.
GetFoodModel(r) ==
    /\ pc[r] = "get_model"
    /\ IF food_model_missing(get_model("food_recognition"))
       THEN /\ pc' = [pc EXCEPT ![r] = "raised"]
            /\ result' = [result EXCEPT ![r] = Raise("ValueError")]
       ELSE /\ pc' = [pc EXCEPT ![r] = "detect"]
            /\ UNCHANGED result
    /\ UNCHANGED <<chatVars, app_state, models, request, analysisVars, response>>

\* Mutant: detected_foods kept on the service object, which the requests in
\* flight share, instead of being started empty in the call.
Detect_shared_list(r, raw) ==
    /\ pc[r] = "detect"
    /\ results' = [results EXCEPT ![r] = food_model(raw, confidence_threshold)]
    /\ ri' = [ri EXCEPT ![r] = 1]
    /\ bi' = [bi EXCEPT ![r] = 1]
    /\ detected_foods' =
         [detected_foods EXCEPT ![r] =
            IF \E q \in Reqs \ {r} : detected_foods[q] # <<>>
            THEN detected_foods[CHOOSE q \in Reqs \ {r} : detected_foods[q] # <<>>]
            ELSE <<>>]
    /\ portion_estimates' = [portion_estimates EXCEPT ![r] = <<>>]
    /\ stages' = [stages EXCEPT ![r] = Append(@, DetectionStage(r, TRUE, raw))]
    /\ pc' = [pc EXCEPT ![r] = "loop"]
    /\ UNCHANGED <<chatVars, app_state, models, request, food_name, estimated_weight,
                   estimated_grams, normalized_depth, depth_estimate, result, response>>

\* results = food_model(image_np, conf=self.confidence_threshold), with
\* detected_foods and portion_estimates started empty.
Detect(r, raw) ==
    /\ pc[r] = "detect"
    /\ results' = [results EXCEPT ![r] = food_model(raw, confidence_threshold)]
    /\ ri' = [ri EXCEPT ![r] = 1]
    /\ bi' = [bi EXCEPT ![r] = 1]
    /\ detected_foods' = [detected_foods EXCEPT ![r] = <<>>]
    /\ portion_estimates' = [portion_estimates EXCEPT ![r] = <<>>]
    /\ stages' = [stages EXCEPT ![r] = Append(@, DetectionStage(r, TRUE, raw))]
    /\ pc' = [pc EXCEPT ![r] = "loop"]
    /\ UNCHANGED <<chatVars, app_state, models, request, food_name, estimated_weight,
                   estimated_grams, normalized_depth, depth_estimate, result, response>>

\* The detector call raises: the error leaves analyze_image.
DetectFails(r) ==
    /\ pc[r] = "detect"
    /\ stages' = [stages EXCEPT ![r] = Append(@, DetectionStage(r, FALSE, <<>>))]
    /\ result' = [result EXCEPT ![r] = Raise("DetectorError")]
    /\ pc' = [pc EXCEPT ![r] = "raised"]
    /\ UNCHANGED <<chatVars, app_state, models, request, results, ri, bi, detected_foods,
                   portion_estimates, food_name, estimated_weight,
                   estimated_grams, normalized_depth, depth_estimate, response>>

InLoop(r) == pc[r] = "loop" /\ ri[r] <= Len(results[r])
CurrentBoxes(r) == results[r][ri[r]]
HasBoxes(r) == ~CurrentBoxes(r).is_none /\ Len(CurrentBoxes(r).boxes) > 0
CurrentBox(r) == CurrentBoxes(r).boxes[bi[r]]

\* The loop position after the current box.
NextRi(r) == IF bi[r] < Len(CurrentBoxes(r).boxes) THEN ri[r] ELSE ri[r] + 1
NextBi(r) == IF bi[r] < Len(CurrentBoxes(r).boxes) THEN bi[r] + 1 ELSE 1

\* `if boxes is None or len(boxes) == 0: continue`
SkipResult(r) ==
    /\ InLoop(r)
    /\ ~HasBoxes(r)
    /\ ri' = [ri EXCEPT ![r] = @ + 1]
    /\ bi' = [bi EXCEPT ![r] = 1]
    /\ UNCHANGED <<chatVars, app_state, models, pc, request, results, detected_foods,
                   portion_estimates, food_name, estimated_weight,
                   estimated_grams, normalized_depth, depth_estimate, result, response, stages>>

\* Mutant: the entry named by the detector's label, not by the mapped key.
food_info_detector_label(name, box) ==
    [name |-> box.cls,
     confidence |-> PyRound(box.conf, 3),
     bounding_box |->
        [x |-> PyInt(box.xyxy[1]),
         y |-> PyInt(box.xyxy[2]),
         width |-> PyIntSub(box.xyxy[3], box.xyxy[1]),
         height |-> PyIntSub(box.xyxy[4], box.xyxy[2])]]

\* Mutant: width and height taken between the truncated corners,
\* int(x2) - int(x1) and int(y2) - int(y1).
food_info_int_corners(name, box) ==
    [name |-> name,
     confidence |-> PyRound(box.conf, 3),
     bounding_box |->
        [x |-> PyInt(box.xyxy[1]),
         y |-> PyInt(box.xyxy[2]),
         width |-> PyInt(box.xyxy[3]) - PyInt(box.xyxy[1]),
         height |-> PyInt(box.xyxy[4]) - PyInt(box.xyxy[2])]]

\* The entry appended to detected_foods for a kept box.
food_info(name, box) ==
    [name |-> name,
     confidence |-> PyRound(box.conf, 3),
     bounding_box |->
        [x |-> PyInt(box.xyxy[1]),
         y |-> PyInt(box.xyxy[2]),
         width |-> PyIntSub(box.xyxy[3], box.xyxy[1]),
         height |-> PyIntSub(box.xyxy[4], box.xyxy[2])]]

\* Mutant: the portion stages run whatever the caller asked for.
portion_wanted_always(include_portion_estimate) == TRUE

\* `if include_portion_estimate:`
portion_wanted(include_portion_estimate) == include_portion_estimate

\* One box: read it, map its label, and keep it if the label maps to a food.
MapBox(r) ==
    /\ InLoop(r)
    /\ HasBoxes(r)
    /\ LET box  == CurrentBox(r)
           name == map_to_food_class(box.cls)
       IN  /\ stages' = [stages EXCEPT ![r] = Append(@, Stage("mapping", r, TRUE))]
           /\ IF TruthyS(name)
              THEN /\ detected_foods' =
                        [detected_foods EXCEPT ![r] = Append(@, food_info(name, box))]
                   /\ IF portion_wanted(request[r].include_portion_estimate)
                      THEN /\ food_name' = [food_name EXCEPT ![r] = name]
                           /\ pc' = [pc EXCEPT ![r] = "geometric"]
                           /\ UNCHANGED <<ri, bi>>
                      ELSE /\ ri' = [ri EXCEPT ![r] = NextRi(r)]
                           /\ bi' = [bi EXCEPT ![r] = NextBi(r)]
                           /\ UNCHANGED <<pc, food_name>>
              ELSE /\ ri' = [ri EXCEPT ![r] = NextRi(r)]
                   /\ bi' = [bi EXCEPT ![r] = NextBi(r)]
                   /\ UNCHANGED <<pc, food_name, detected_foods>>
    /\ UNCHANGED <<chatVars, app_state, models, request, results, portion_estimates,
                   estimated_weight, estimated_grams, normalized_depth, depth_estimate, result,
                   response>>

\* Mutant: the depth stage entered without looking at the handle.
depth_stage_unchecked(depth_model) == "depth"

\* `if depth_model is not None`: on to the depth stage, or past it.
depth_stage_next(depth_model) ==
    IF depth_model # None THEN "depth" ELSE "blend"

\* _estimate_portion up to the depth model lookup: the geometric estimate.
Geometric(r) ==
    /\ pc[r] = "geometric"
    /\ estimated_weight' =
         [estimated_weight EXCEPT ![r] =
            geometric_estimate(image_shape(r), food_name[r], CurrentBox(r).xyxy)]
    /\ estimated_grams' = [estimated_grams EXCEPT ![r] = NoneF]
    /\ normalized_depth' = [normalized_depth EXCEPT ![r] = NoneF]
    /\ depth_estimate' = [depth_estimate EXCEPT ![r] = NoneF]
    /\ stages' = [stages EXCEPT ![r] = Append(@, Stage("geometric", r, TRUE))]
    /\ pc' = [pc EXCEPT ![r] = depth_stage_next(get_model("depth_estimation"))]
    /\ UNCHANGED <<chatVars, app_state, models, request, results, ri, bi, detected_foods,
                   portion_estimates, food_name, result, response>>

\* Mutant: the depth stage run again after its error.
depth_error_retried == "depth"

\* Mutant: no try/except around the depth stage, its error leaves the analysis.
depth_error_propagates == "raised"

\* `except Exception as e: logger.warning(...)`: the error is absorbed and
\* _estimate_portion goes on to its return.
depth_error_caught == "blend"

\* Mutant: a depth provider that raised is taken out of the registry.
Depth_disables_provider(r, outcome) ==
    /\ pc[r] = "depth"
    /\ IF outcome = DepthFails
       THEN /\ stages' = [stages EXCEPT ![r] = Append(@, DepthStage(r, FALSE, outcome))]
            /\ pc' = [pc EXCEPT ![r] = depth_error_caught]
            /\ models' = [models EXCEPT !["depth_estimation"] = None]
            /\ UNCHANGED <<estimated_grams, normalized_depth, depth_estimate>>
       ELSE /\ stages' = [stages EXCEPT ![r] = Append(@, DepthStage(r, TRUE, outcome))]
            /\ pc' = [pc EXCEPT ![r] = "blend"]
            /\ normalized_depth' = [normalized_depth EXCEPT ![r] = outcome]
            /\ estimated_grams' =
                 [estimated_grams EXCEPT ![r] =
                    depth_grams(CurrentBox(r).xyxy, outcome)]
            /\ depth_estimate' =
                 [depth_estimate EXCEPT ![r] =
                    depth_based_estimation(CurrentBox(r).xyxy, outcome)]
            /\ UNCHANGED models
    /\ UNCHANGED <<chatVars, app_state, request, results, ri, bi, detected_foods,
                   portion_estimates, food_name, estimated_weight, result,
                   response>>

\* _depth_based_estimation under _estimate_portion's try: the depth model
\* runs and yields an estimate or None, or something in it raises, which is
\* caught and logged.
Depth(r, outcome) ==
    /\ pc[r] = "depth"
    /\ IF outcome = DepthFails
       THEN /\ stages' = [stages EXCEPT ![r] = Append(@, DepthStage(r, FALSE, outcome))]
            /\ pc' = [pc EXCEPT ![r] = depth_error_caught]
            /\ UNCHANGED <<estimated_grams, normalized_depth, depth_estimate>>
       ELSE /\ stages' = [stages EXCEPT ![r] = Append(@, DepthStage(r, TRUE, outcome))]
            /\ pc' = [pc EXCEPT ![r] = "blend"]
            /\ normalized_depth' = [normalized_depth EXCEPT ![r] = outcome]
            /\ estimated_grams' =
                 [estimated_grams EXCEPT ![r] =
                    depth_grams(CurrentBox(r).xyxy, outcome)]
            /\ depth_estimate' =
                 [depth_estimate EXCEPT ![r] =
                    depth_based_estimation(CurrentBox(r).xyxy, outcome)]
    /\ UNCHANGED <<chatVars, app_state, models, request, results, ri, bi, detected_foods,
                   portion_estimates, food_name, estimated_weight, result,
                   response>>

\* Mutant: a key already present keeps its first value.
DictSet_keep_first(dict, key, value) == dict @@ (key :> value)

\* dict[key] = value
DictSet(dict, key, value) == (key :> value) @@ dict

\* Mutant: an estimate is stored only when the depth stage gave one.
Blend_only_with_depth(r) ==
    /\ pc[r] = "blend"
    /\ portion_estimates' =
         [portion_estimates EXCEPT ![r] =
            IF TruthyF(depth_estimate[r])
            THEN DictSet(@, food_name[r],
                         final_portion(image_shape(r), food_name[r],
                                  CurrentBox(r).xyxy, normalized_depth[r]))
            ELSE @]
    /\ stages' = [stages EXCEPT ![r] = Append(@, Stage("blend", r, TRUE))]
    /\ ri' = [ri EXCEPT ![r] = NextRi(r)]
    /\ bi' = [bi EXCEPT ![r] = NextBi(r)]
    /\ pc' = [pc EXCEPT ![r] = "loop"]
    /\ UNCHANGED <<chatVars, app_state, models, request, results,
                   detected_foods, food_name, estimated_weight,
                   estimated_grams, normalized_depth, depth_estimate, result, response>>

\* The rest of _estimate_portion (blend, round) and the store into
\* portion_estimates; then on to the next box.
Blend(r) ==
    /\ pc[r] = "blend"
    /\ portion_estimates' =
         [portion_estimates EXCEPT ![r] =
            DictSet(@, food_name[r],
                    final_portion(image_shape(r), food_name[r],
                                  CurrentBox(r).xyxy, normalized_depth[r]))]
    /\ stages' = [stages EXCEPT ![r] = Append(@, Stage("blend", r, TRUE))]
    /\ ri' = [ri EXCEPT ![r] = NextRi(r)]
    /\ bi' = [bi EXCEPT ![r] = NextBi(r)]
    /\ pc' = [pc EXCEPT ![r] = "loop"]
    /\ UNCHANGED <<chatVars, app_state, models, request, results, detected_foods, food_name,
                   estimated_weight, estimated_grams, normalized_depth, depth_estimate, result,
                   response>>

\* Mutant: the dimensions taken in numpy's (rows, columns) order.
analysis_result_shape_order(r) ==
    [kind |-> "return",
     detected_foods |-> detected_foods[r],
     portion_estimates |-> portion_estimates[r],
     image_dimensions |->
        [width |-> image_shape(r)[1], height |-> image_shape(r)[2]]]

\* The dictionary analyze_image returns.
analysis_result(r) ==
    [kind |-> "return",
     detected_foods |-> detected_foods[r],
     portion_estimates |-> portion_estimates[r],
     image_dimensions |->
        [width |-> request[r].image.width, height |-> request[r].image.height]]

Return(r) ==
    /\ pc[r] = "loop"
    /\ ri[r] > Len(results[r])
    /\ result' = [result EXCEPT ![r] = analysis_result(r)]
    /\ pc' = [pc EXCEPT ![r] = "returned"]
    /\ UNCHANGED <<chatVars, app_state, models, request, analysisVars, response>>

(* ------------------------------------------------------------------ *)
(* routers/food_analysis.py: analyze_food_image, after the analysis     *)
(* ------------------------------------------------------------------ *)

\* What /portion-estimate returns (lines 103-111): the estimate of the food
\* that was asked for when there is one, else all the estimates.
portion_body(food, res) ==
    IF TruthyS(food) /\ food \in DOMAIN res.portion_estimates
    THEN [food_name |-> food, estimated_grams |-> res.portion_estimates[food]]
    ELSE [portion_estimates |-> res.portion_estimates]

\* `return result` of /analyze-image, the returns of /portion-estimate.
RouterReturn(r) ==
    /\ pc[r] = "returned"
    /\ response' =
         [response EXCEPT ![r] =
            [status |-> 200,
             body |-> IF request[r].endpoint = "/portion-estimate"
                      THEN portion_body(request[r].food_name, result[r])
                      ELSE result[r]]]
    /\ pc' = [pc EXCEPT ![r] = "responded"]
    /\ UNCHANGED <<chatVars, app_state, models, request, analysisVars, result>>

\* `except Exception: raise HTTPException(status_code=500, ...)`
RouterError(r) ==
    /\ pc[r] = "raised"
    /\ response' = [response EXCEPT ![r] = HTTPException(500)]
    /\ pc' = [pc EXCEPT ![r] = "responded"]
    /\ UNCHANGED <<chatVars, app_state, models, request, analysisVars, result>>

\* The response is sent; everything the request created is discarded.
Finish(r) ==
    /\ pc[r] = "responded"
    /\ pc' = [pc EXCEPT ![r] = "idle"]
    /\ request' = [request EXCEPT ![r] = NoRequest]
    /\ results' = [results EXCEPT ![r] = <<>>]
    /\ ri' = [ri EXCEPT ![r] = 0]
    /\ bi' = [bi EXCEPT ![r] = 0]
    /\ detected_foods' = [detected_foods EXCEPT ![r] = <<>>]
    /\ portion_estimates' = [portion_estimates EXCEPT ![r] = <<>>]
    /\ food_name' = [food_name EXCEPT ![r] = NoneS]
    /\ estimated_weight' = [estimated_weight EXCEPT ![r] = NoneF]
    /\ estimated_grams' = [estimated_grams EXCEPT ![r] = NoneF]
    /\ normalized_depth' = [normalized_depth EXCEPT ![r] = NoneF]
    /\ depth_estimate' = [depth_estimate EXCEPT ![r] = NoneF]
    /\ result' = [result EXCEPT ![r] = NoResult]
    /\ response' = [response EXCEPT ![r] = NoResponse]
    /\ stages' = [stages EXCEPT ![r] = <<>>]
    /\ UNCHANGED <<chatVars, app_state, models>>

(* ------------------------------------------------------------------ *)
(* routers/chat.py and GenAIService.chat_completion                     *)
(* ------------------------------------------------------------------ *)

foodVars == <<app_state, models, pc, request, analysisVars, result, response>>

\* POST /chat: the handler takes the validated input and calls the service.
chat_completion(input_data) ==
    /\ chat_pc = "idle"
    /\ chat_input' = input_data
    /\ chat_pc' = "messages"
    /\ UNCHANGED <<messages, api_calls, chat_result, chat_response, foodVars>>

\* PromptTemplates.get_chat_system_prompt raises on a profile that is not a
\* dictionary (`profile.get` of None).
prompt_raises(user_context) == user_context.kind = "null"

\* The part of the system prompt that depends on the user: the name, 'User'
\* when the profile has none.
get_chat_system_prompt(user_context) ==
    <<"Name:", IF user_context.kind = "dict" THEN user_context.firstName
                ELSE "User">>

\* Lines 50-55 under the outer try: system prompt, history, user message.
\* An error here goes to the except branch with `messages` unassigned.
BuildMessages ==
    /\ chat_pc = "messages"
    /\ IF prompt_raises(chat_input.user_context)
       THEN /\ chat_pc' = "fallback"
            /\ UNCHANGED messages
       ELSE /\ messages' =
                 <<Message("system",
                           get_chat_system_prompt(chat_input.user_context))>>
                 \o chat_input.conversation_history
                 \o <<Message("user", chat_input.message)>>
            /\ chat_pc' = "default"
    /\ UNCHANGED <<chat_input, api_calls, chat_result, chat_response, foodVars>>

\* A request to client.chat.completions.create, with how it ended.
ApiCall(model, msgs, penalties, outcome) ==
    [model |-> model, messages |-> msgs, temperature |-> Rat(7, 10),
     max_tokens |-> 1000, penalties |-> penalties, outcome |-> outcome]

\* The dictionary chat_completion returns from an API response: the text,
\* the model named by the response, the tokens of its usage record.
chat_result_of(outcome) ==
    [kind |-> "return", response |-> outcome.content, model |-> outcome.model,
     tokens_used |-> IF outcome.usage.is_none THEN 0
                     ELSE outcome.usage.total_tokens]

\* Lines 58-71: the request to the default model; its answer is returned,
\* its error goes to the except branch.
DefaultRequest(outcome) ==
    /\ chat_pc = "default"
    /\ api_calls' =
         Append(api_calls, ApiCall(DEFAULT_LLM_MODEL, messages, TRUE, outcome))
    /\ IF outcome.raises
       THEN /\ chat_pc' = "fallback"
            /\ UNCHANGED chat_result
       ELSE /\ chat_result' = chat_result_of(outcome)
            /\ chat_pc' = "returned"
    /\ UNCHANGED <<chat_input, messages, chat_response, foodVars>>

\* Mutant: the fallback request carries the system prompt and the user
\* message without the history.
fallback_messages_no_history(msgs) == <<msgs[1], msgs[Len(msgs)]>>

\* `messages=messages` of the fallback request.
fallback_messages(msgs) == msgs

\* Lines 73-90: the except branch.  Reading `messages` while it is
\* unassigned raises UnboundLocalError before any request is made; else one
\* request goes to the fallback model, its answer is returned and its error
\* is raised again.
FallbackRequest(outcome) ==
    /\ chat_pc = "fallback"
    /\ IF messages = Unbound
       THEN /\ chat_result' = Raise("UnboundLocalError")
            /\ chat_pc' = "raised"
            /\ UNCHANGED api_calls
       ELSE /\ api_calls' =
                 Append(api_calls,
                        ApiCall(FALLBACK_LLM_MODEL, fallback_messages(messages),
                                FALSE, outcome))
            /\ IF outcome.raises
               THEN /\ chat_result' = Raise("APIError")
                    /\ chat_pc' = "raised"
               ELSE /\ chat_result' = chat_result_of(outcome)
                    /\ chat_pc' = "returned"
    /\ UNCHANGED <<chat_input, messages, chat_response, foodVars>>

\* `return ChatResponse(...)`: a response whose text is None does not
\* validate as ChatResponse, which the handler's except turns into a 500.
ChatReturn ==
    /\ chat_pc = "returned"
    /\ chat_response' =
         IF chat_result.response.is_none THEN HTTPException(500)
         ELSE [status |-> 200,
               body |-> [response |-> chat_result.response.text,
                         model |-> chat_result.model,
                         tokens_used |-> chat_result.tokens_used]]
    /\ chat_pc' = "responded"
    /\ UNCHANGED <<chat_input, messages, api_calls, chat_result, foodVars>>

\* `except Exception: raise HTTPException(status_code=500, ...)`
ChatError ==
    /\ chat_pc = "raised"
    /\ chat_response' = HTTPException(500)
    /\ chat_pc' = "responded"
    /\ UNCHANGED <<chat_input, messages, api_calls, chat_result, foodVars>>

\* The response is sent; the locals of the call are gone.
ChatFinish ==
    /\ chat_pc = "responded"
    /\ chat_pc' = "idle"
    /\ chat_input' = NoChatInput
    /\ messages' = Unbound
    /\ api_calls' = <<>>
    /\ chat_result' = NoResult
    /\ chat_response' = NoResponse
    /\ UNCHANGED foodVars

(* ------------------------------------------------------------------ *)
(* Specification: one request at a time                                 *)
(* ------------------------------------------------------------------ *)

Next ==
    \/ \E food_ok \in BOOLEAN, depth_ok \in BOOLEAN : load_models(food_ok, depth_ok)
    \/ unload_models
    \/ \E r \in Reqs, req \in HttpRequests : analyze_food_image(r, req)
    \/ \E r \in Reqs, req \in PortionRequests : estimate_portion(r, req)
    \/ \E r \in Reqs : ReadUpload(r)
    \/ \E r \in Reqs : Decode(r)
    \/ \E r \in Reqs : GetFoodModel(r)
    \/ \E r \in Reqs :
          /\ pc[r] = "detect"
          /\ \E raw \in RawDetections(Candidates) : Detect(r, raw)
    \/ \E r \in Reqs : DetectFails(r)
    \/ \E r \in Reqs : SkipResult(r)
    \/ \E r \in Reqs : MapBox(r)
    \/ \E r \in Reqs : Geometric(r)
    \/ \E r \in Reqs, outcome \in DepthOutcomeKinds : Depth(r, outcome)
    \/ \E r \in Reqs : Blend(r)
    \/ \E r \in Reqs : Return(r)
    \/ \E r \in Reqs : RouterReturn(r)
    \/ \E r \in Reqs : RouterError(r)
    \/ \E r \in Reqs : Finish(r)

Spec == Init /\ [][Next]_vars

(* ------------------------------------------------------------------ *)
(* Specification: the portion stages on every label and box             *)
(* ------------------------------------------------------------------ *)

\* A request right after the detector returned one box, for every label,
\* box, image size and state of the depth model.
InitPortion ==
    \E lbl \in Labels, g \in Geometries, img \in Images \ {NoImage},
       depth_ok \in BOOLEAN :
        /\ app_state = {"model_loader"}
        /\ models = ("depth_estimation" :> (IF depth_ok THEN "midas" ELSE None))
                    @@ ("food_recognition" :> "yolo")
        /\ pc = [r \in {1} |-> "loop"]
        /\ request = [r \in {1} |->
                        [endpoint |-> "/analyze-image",
                         content_type |-> "image/jpeg", size |-> MAX_IMAGE_SIZE,
                         image |-> img, include_portion_estimate |-> TRUE,
                         food_name |-> NoneS]]
        /\ results = [r \in {1} |-> <<Boxes(<<Det(lbl, Rat(9, 10), g)>>)>>]
        /\ ri = [r \in {1} |-> 1]
        /\ bi = [r \in {1} |-> 1]
        /\ detected_foods = [r \in {1} |-> <<>>]
        /\ portion_estimates = [r \in {1} |-> <<>>]
        /\ food_name = [r \in {1} |-> NoneS]
        /\ estimated_weight = [r \in {1} |-> NoneF]
        /\ estimated_grams = [r \in {1} |-> NoneF]
        /\ normalized_depth = [r \in {1} |-> NoneF]
        /\ depth_estimate = [r \in {1} |-> NoneF]
        /\ result = [r \in {1} |-> NoResult]
        /\ response = [r \in {1} |-> NoResponse]
        /\ stages = [r \in {1} |->
                       <<[stage |-> "detection", ri |-> 0, bi |-> 0, ok |-> TRUE,
                          found |-> <<Boxes(<<Det(lbl, Rat(9, 10), g)>>)>>]>>]
        /\ ChatIdle

NextPortion ==
    \/ \E r \in Reqs : MapBox(r)
    \/ \E r \in Reqs : Geometric(r)
    \/ \E r \in Reqs, outcome \in DepthOutcomes : Depth(r, outcome)
    \/ \E r \in Reqs : Blend(r)
    \/ \E r \in Reqs : Return(r)

SpecPortion == InitPortion /\ [][NextPortion]_vars

(* ------------------------------------------------------------------ *)
(* Specification: requests in flight together                           *)
(* ------------------------------------------------------------------ *)

\* How many requests are in flight together.
MaxRequests == 2

\* What a request to /analyze-image carries here: a decodable image of an
\* accepted type, small enough or too large, with portion estimates asked
\* for.
ConcurrentRequests ==
    {req \in HttpRequests :
        /\ req.content_type = "image/jpeg"
        /\ req.image = Img(1000, 1000)
        /\ req.include_portion_estimate}

\* What the detector finds in the images: one apple; or, after a result
\* object without boxes, a smaller apple next to a plate.
ConcurrentDetections ==
    { <<Boxes(<<Det(Str.apple, Rat(9, 10), IBox(100, 100, 400, 400))>>)>>,
      <<NoneBoxes,
        Boxes(<<Det(Str.Apple, Rat(6, 10), IBox(100, 100, 200, 200)),
                Det(Str.Plate, Rat(8, 10), IBox(0, 0, 250, 300))>>)>> }

ConcurrentDepthOutcomes == {DepthFails, Rat(1, 1)}

\* The models are loaded, the depth model with or without success, and stay
\* as they are; no request has arrived.
InitConcurrent ==
    \E depth_ok \in BOOLEAN :
        /\ app_state = {"model_loader"}
        /\ models = ("depth_estimation" :> (IF depth_ok THEN "midas" ELSE None))
                    @@ ("food_recognition" :> "yolo")
        /\ pc = [r \in 1..MaxRequests |-> "idle"]
        /\ request = [r \in 1..MaxRequests |-> NoRequest]
        /\ results = [r \in 1..MaxRequests |-> <<>>]
        /\ ri = [r \in 1..MaxRequests |-> 0]
        /\ bi = [r \in 1..MaxRequests |-> 0]
        /\ detected_foods = [r \in 1..MaxRequests |-> <<>>]
        /\ portion_estimates = [r \in 1..MaxRequests |-> <<>>]
        /\ food_name = [r \in 1..MaxRequests |-> NoneS]
        /\ estimated_weight = [r \in 1..MaxRequests |-> NoneF]
        /\ estimated_grams = [r \in 1..MaxRequests |-> NoneF]
        /\ normalized_depth = [r \in 1..MaxRequests |-> NoneF]
        /\ depth_estimate = [r \in 1..MaxRequests |-> NoneF]
        /\ result = [r \in 1..MaxRequests |-> NoResult]
        /\ response = [r \in 1..MaxRequests |-> NoResponse]
        /\ stages = [r \in 1..MaxRequests |-> <<>>]
        /\ ChatIdle

\* The steps of requests to /analyze-image, interleaved in any way: each
\* request is served by a server process of its own (uvicorn starts
\* settings.WORKERS of them, main.py 160), and every process has loaded the
\* same models.
NextConcurrent ==
    \/ \E r \in Reqs, req \in ConcurrentRequests : analyze_food_image(r, req)
    \/ \E r \in Reqs : ReadUpload(r)
    \/ \E r \in Reqs : Decode(r)
    \/ \E r \in Reqs : GetFoodModel(r)
    \/ \E r \in Reqs :
          /\ pc[r] = "detect"
          /\ \E raw \in ConcurrentDetections : Detect(r, raw)
    \/ \E r \in Reqs : DetectFails(r)
    \/ \E r \in Reqs : SkipResult(r)
    \/ \E r \in Reqs : MapBox(r)
    \/ \E r \in Reqs : Geometric(r)
    \/ \E r \in Reqs, outcome \in ConcurrentDepthOutcomes : Depth(r, outcome)
    \/ \E r \in Reqs : Blend(r)
    \/ \E r \in Reqs : Return(r)
    \/ \E r \in Reqs : RouterReturn(r)
    \/ \E r \in Reqs : RouterError(r)

SpecConcurrent == InitConcurrent /\ [][NextConcurrent]_vars

(* ------------------------------------------------------------------ *)
(* Specification: the chat endpoint                                     *)
(* ------------------------------------------------------------------ *)

NextChat ==
    \/ \E input_data \in ChatInputs : chat_completion(input_data)
    \/ BuildMessages
    \/ \E outcome \in ApiOutcomes : DefaultRequest(outcome)
    \/ \E outcome \in ApiOutcomes : FallbackRequest(outcome)
    \/ ChatReturn
    \/ ChatError
    \/ ChatFinish

SpecChat == Init /\ [][NextChat]_vars

(* ------------------------------------------------------------------ *)
(* Properties                                                           *)
(* ------------------------------------------------------------------ *)

LastStageIs(r, name) ==
    stages[r] # <<>> /\ stages[r][Len(stages[r])].stage = name

\* The box a stage record (other than the detection's) belongs to.
BoxAt(r, i) == results[r][stages[r][i].ri].boxes[stages[r][i].bi]

\* The box of the stage that ran last.
LastBox(r) == BoxAt(r, Len(stages[r]))

\* The geometric stage has run for the current food.
GeometricDone(r) == estimated_weight[r] # NoneF

\* The request stands between the geometric stage and the end of the blend
\* of the same box.
AtPortion(r) == pc[r] \in {"depth", "blend"}

\* The box's area ratio over the typical ratio 0.15.
RatioOverTypical(r) ==
    FDiv(area_ratio_of(image_shape(r), CurrentBox(r).xyxy), Rat(15, 100))

\* The taxonomy's default weight of a key, 100 for a key not in the table.
TableWeight(key) ==
    IF key \in DOMAIN FOOD_CLASSES THEN FOOD_CLASSES[key].default_weight ELSE 100

\* C1: for every box and food key the geometric estimate lies in
\* [0.5 * default_weight, 2.0 * default_weight], the default weight being the
\* table's for a key of FOOD_CLASSES and 100 for any other key.
C1_GeometricInBand ==
    \A r \in Reqs :
        GeometricDone(r) =>
            LET w  == estimated_weight[r]
                dw == TableWeight(food_name[r])
            IN  /\ dw * w.d <= 2 * w.n
                /\ w.n <= 2 * dw * w.d

\* C1 witness: a key outside the table, estimated at the upper end 2.0 * 100.
C1_Witness ==
    \E r \in Reqs :
        /\ AtPortion(r)
        /\ food_name[r] = Str.mango
        /\ estimated_weight[r] = Int2F(200)

\* C2: the scale factor is the clamp of q = area_ratio / 0.15: 0.5 when
\* q < 0.5, 2.0 when q > 2.0, and q itself for every q in [0.5, 2.0]; the
\* geometric estimate is the default weight times that factor.
C2_ScaleFactorClamp ==
    \A r \in Reqs :
        AtPortion(r) =>
            LET q   == RatioOverTypical(r)
                exp == IF FLt(q, Rat(1, 2)) THEN Rat(1, 2)
                       ELSE IF FGt(q, Int2F(2)) THEN Int2F(2)
                       ELSE q
            IN  /\ scale_factor_of(image_shape(r), CurrentBox(r).xyxy) = exp
                /\ estimated_weight[r] =
                     FMul(Int2F(TableWeight(food_name[r])), exp)

\* C2 witness: a box whose ratio is exactly the lower boundary 0.5, estimated
\* at half the default weight.
C2_Witness ==
    \E r \in Reqs :
        /\ AtPortion(r)
        /\ RatioOverTypical(r) = Rat(1, 2)
        /\ food_name[r] = Str.apple
        /\ estimated_weight[r] = Int2F(91)

\* v is x rounded to one decimal: a number of tenths at most 0.05 from x.
\* Where x is halfway between two tenths the program's double lies a hair to
\* one side of it, and v is the tenth on that side.
RoundsTo1(x, v) ==
    /\ (10 * v.n) % v.d = 0
    /\ LET diff == FSub(x, v)
       IN  FLe(diff, Rat(1, 20)) /\ FLe(Rat(-1, 20), diff)

\* The depth stage of this box computed an estimate that is, as the float
\* the program holds, 10 g or less: below 10 as a fraction, or 10 as a
\* fraction and not above 10 as the product of the doubles.
AtMost10(r, box) ==
    /\ estimated_grams[r] # NoneF
    /\ \/ FLt(estimated_grams[r], Int2F(10))
       \/ /\ estimated_grams[r] = Int2F(10)
          /\ ~above_noise(box.xyxy, normalized_depth[r])

\* C3: a depth estimate of 10 g or less, exactly 10 g included, is never
\* surfaced: _depth_based_estimation returns None for it, and the portion
\* stored for that food is the geometric estimate alone, rounded.
C3_NoiseNeverSurfaced ==
    \A r \in Reqs :
        /\ (pc[r] = "blend" /\ AtMost10(r, CurrentBox(r))) =>
              depth_estimate[r] = NoneF
        /\ (LastStageIs(r, "blend") /\ AtMost10(r, LastBox(r))) =>
              /\ depth_estimate[r] = NoneF
              /\ RoundsTo1(estimated_weight[r],
                           portion_estimates[r][food_name[r]])

\* C3 witness: the depth stage computed exactly 10 g and the blend stored the
\* geometric estimate.
C3_Witness ==
    \E r \in Reqs :
        /\ LastStageIs(r, "blend")
        /\ estimated_grams[r] = Int2F(10)
        /\ AtMost10(r, LastBox(r))
        /\ depth_estimate[r] = NoneF
        /\ RoundsTo1(estimated_weight[r], portion_estimates[r][food_name[r]])

\* C4 as claimed: with a depth estimate, the final portion is the mean of the
\* geometric estimate rounded to one decimal and the depth estimate, rounded
\* to one decimal (whichever way an exact tie of that mean is rounded).
C4_MeanOfRoundedGeometric ==
    \A r \in Reqs :
        (LastStageIs(r, "blend") /\ TruthyF(depth_estimate[r])) =>
            LET k == PyInt(FMul(estimated_weight[r], Int2F(10)))
            IN  \E rounded \in {Rat(k, 10), Rat(k + 1, 10)} :
                    /\ RoundsTo1(estimated_weight[r], rounded)
                    /\ RoundsTo1(FDiv(FAdd(rounded, depth_estimate[r]),
                                      Int2F(2)),
                                 portion_estimates[r][food_name[r]])

\* C4 amended: with a depth estimate (> 10 g), the final portion is the mean
\* of the unrounded geometric estimate and the depth estimate, rounded once to
\* one decimal.
C4_MeanOfUnroundedGeometric ==
    \A r \in Reqs :
        (LastStageIs(r, "blend") /\ TruthyF(depth_estimate[r])) =>
            /\ ~AtMost10(r, LastBox(r))
            /\ RoundsTo1(FDiv(FAdd(estimated_weight[r], depth_estimate[r]),
                              Int2F(2)),
                         portion_estimates[r][food_name[r]])

\* C4 witness: geometric 109.2 and depth 45 blended to 77.1.
C4_Witness ==
    \E r \in Reqs :
        /\ LastStageIs(r, "blend")
        /\ estimated_weight[r] = Rat(1092, 10)
        /\ depth_estimate[r] = Int2F(45)
        /\ portion_estimates[r][food_name[r]] = Rat(771, 10)

(* ------------------------------------------------------------------ *)
(* The pipeline's stages under missing or failing models                *)
(* ------------------------------------------------------------------ *)

\* The stage records of a request that carry this stage name.
StagesNamed(r, name) == {i \in DOMAIN stages[r] : stages[r][i].stage = name}

\* The detector ran for the request and did not raise.
DetectionOk(r) ==
    \E i \in StagesNamed(r, "detection") : stages[r][i].ok

\* The depth stage of some box of the request raised.
DepthFailed(r) ==
    \E i \in StagesNamed(r, "depth") : ~stages[r][i].ok

\* The blend of a box has just been stored, and the stage before it was this.
BlendedAfter(r, name, ok) ==
    /\ LastStageIs(r, "blend")
    /\ Len(stages[r]) >= 2
    /\ stages[r][Len(stages[r]) - 1].stage = name
    /\ stages[r][Len(stages[r]) - 1].ok = ok

\* The analysis of the request is over and gave a result.
Returned(r) == pc[r] \in {"returned", "responded"} /\ result[r].kind = "return"

\* C5: with no depth provider registered the depth stage never runs, the
\* request does not fail for it, and every portion estimate is the geometric
\* estimate of a box of that key alone, rounded to one decimal.
C5_NoDepthProviderGeometricOnly ==
    \A r \in Reqs :
        get_model("depth_estimation") = None =>
            /\ StagesNamed(r, "depth") = {}
            /\ pc[r] # "depth"
            /\ DetectionOk(r) => (pc[r] # "raised" /\ result[r].kind # "raise")
            /\ LastStageIs(r, "blend") =>
                 /\ stages[r][Len(stages[r]) - 1].stage = "geometric"
                 /\ RoundsTo1(estimated_weight[r],
                              portion_estimates[r][food_name[r]])
            /\ Returned(r) =>
                 \A k \in DOMAIN result[r].portion_estimates :
                     \E i \in DOMAIN AllBoxes(results[r]) :
                        /\ map_to_food_class(AllBoxes(results[r])[i].cls) = k
                        /\ RoundsTo1(geometric_estimate(image_shape(r), k,
                                        AllBoxes(results[r])[i].xyxy),
                                     result[r].portion_estimates[k])

C5_Witness ==
    \E r \in Reqs :
        /\ pc[r] = "returned"
        /\ "depth_estimation" \in DOMAIN models
        /\ models["depth_estimation"] = None
        /\ request[r].image = Img(1000, 1000)
        /\ results[r] = <<Boxes(<<Det(Str.apple, Rat(9, 10), IBox(100, 100, 400, 400))>>)>>
        /\ result[r].portion_estimates = (Str.apple :> Rat(1092, 10))

\* C6: a depth stage that raises for a food does not fail the request: that
\* food's estimate is its geometric estimate rounded to one decimal, the loop
\* goes on over every remaining box, a later food whose depth stage succeeds
\* is still blended, and the analysis returns its result.
C6_DepthFailureAbsorbed ==
    \A r \in Reqs :
        DepthFailed(r) =>
            /\ pc[r] # "raised"
            /\ result[r].kind # "raise"
            /\ BlendedAfter(r, "depth", FALSE) =>
                 RoundsTo1(estimated_weight[r],
                           portion_estimates[r][food_name[r]])
            /\ (BlendedAfter(r, "depth", TRUE) /\ TruthyF(depth_estimate[r])) =>
                 RoundsTo1(FDiv(FAdd(estimated_weight[r], depth_estimate[r]),
                                Int2F(2)),
                           portion_estimates[r][food_name[r]])
            /\ pc[r] \in {"returned", "responded"} =>
                 /\ Returned(r)
                 /\ Cardinality(StagesNamed(r, "mapping")) = CountBoxes(results[r])
                 /\ Cardinality(StagesNamed(r, "blend")) =
                        Len(result[r].detected_foods)
                 /\ \A i \in DOMAIN result[r].detected_foods :
                        result[r].detected_foods[i].name
                            \in DOMAIN result[r].portion_estimates
            /\ pc[r] = "responded" => response[r].status = 200

C6_Witness ==
    \E r \in Reqs :
        /\ pc[r] = "returned"
        /\ Len(result[r].detected_foods) = 2
        /\ \E i \in StagesNamed(r, "depth"), j \in StagesNamed(r, "depth") :
              /\ i < j
              /\ ~stages[r][i].ok /\ stages[r][i].bi = 1
              /\ stages[r][j].ok /\ stages[r][j].bi = 2
        /\ food_name[r] = Str.apple
        /\ TruthyF(depth_estimate[r])
        /\ DOMAIN result[r].portion_estimates = {Str.mango, Str.apple}
        /\ RoundsTo1(geometric_estimate(image_shape(r), Str.mango,
                                        AllBoxes(results[r])[1].xyxy),
                     result[r].portion_estimates[Str.mango])
        /\ RoundsTo1(FDiv(FAdd(estimated_weight[r], depth_estimate[r]),
                          Int2F(2)),
                     result[r].portion_estimates[Str.apple])
        /\ ~RoundsTo1(estimated_weight[r], result[r].portion_estimates[Str.apple])

\* C7: while no detector is registered, a request on either route runs no
\* stage and produces no result: where analyze_image is called it raises
\* ValueError once the image is decoded, and the response is an error, never
\* a 200 with a body.
C7_NoDetectorNoResult ==
    \A r \in Reqs :
        (get_model("food_recognition") = None /\ pc[r] # "idle") =>
            /\ pc[r] \in {"read", "decode", "get_model", "raised", "responded"}
            /\ stages[r] = <<>>
            /\ detected_foods[r] = <<>> /\ portion_estimates[r] = <<>>
            /\ result[r].kind # "return"
            /\ pc[r] = "raised" =>
                 /\ result[r].kind = "raise"
                 /\ request[r].image.decodable => result[r] = Raise("ValueError")
            /\ pc[r] = "responded" =>
                 /\ response[r].status \in {400, 500}
                 /\ "body" \notin DOMAIN response[r]
                 /\ result[r].kind = "raise" => response[r].status = 500
                 /\ (response[r].status = 500 /\ ~loader_missing) =>
                        result[r].kind = "raise"

C7_Witness ==
    \E r \in Reqs :
        /\ pc[r] = "responded"
        /\ get_model("food_recognition") = None
        /\ get_model("depth_estimation") = None
        /\ ~loader_missing
        /\ request[r].image.decodable
        /\ result[r] = Raise("ValueError")
        /\ response[r] = HTTPException(500)

\* C8: an image that cannot be decoded fails the analysis before the detector
\* is looked up or any inference stage runs, with the decoder's error, whether
\* or not a detector is registered.
C8_UndecodableFailsFirst ==
    \A r \in Reqs :
        (pc[r] # "idle" /\ ~request[r].image.decodable) =>
            /\ pc[r] \in {"read", "decode", "raised", "responded"}
            /\ stages[r] = <<>>
            /\ result[r].kind # "return"
            /\ pc[r] = "raised" => result[r] = Raise("UnidentifiedImageError")
            /\ pc[r] = "responded" => response[r].status \in {400, 500}

C8_Witness ==
    \E r \in Reqs :
        /\ pc[r] = "raised"
        /\ request[r].image = NoImage
        /\ get_model("food_recognition") # None
        /\ get_model("depth_estimation") # None
        /\ stages[r] = <<>>
        /\ result[r] = Raise("UnidentifiedImageError")

\* C9: a detector run that yields no box at all (no result object, or result
\* objects whose boxes are None or empty) is not an error: the analysis
\* returns an empty food list, an empty portion mapping and the dimensions of
\* the image.
C9_NoDetectionsEmptyResult ==
    \A r \in Reqs :
        (DetectionOk(r) /\ CountBoxes(results[r]) = 0) =>
            /\ pc[r] \in {"loop", "returned", "responded"}
            /\ result[r].kind # "raise"
            /\ Cardinality(DOMAIN stages[r]) = 1
            /\ pc[r] \in {"returned", "responded"} =>
                 result[r] =
                    [kind |-> "return",
                     detected_foods |-> <<>>,
                     portion_estimates |-> <<>>,
                     image_dimensions |->
                        [width |-> request[r].image.width,
                         height |-> request[r].image.height]]
            /\ pc[r] = "responded" =>
                 /\ response[r].status = 200
                 /\ request[r].endpoint = "/analyze-image" =>
                        response[r].body = result[r]

C9_Witness ==
    \E r \in Reqs :
        /\ pc[r] = "returned"
        /\ results[r] = <<NoneBoxes>>
        /\ request[r].image = Img(600, 500)
        /\ result[r].detected_foods = <<>>
        /\ result[r].portion_estimates = <<>>
        /\ result[r].image_dimensions = [width |-> 600, height |-> 500]

\* The label of the box a stage record belongs to.
LabelAt(r, i) == results[r][stages[r][i].ri].boxes[stages[r][i].bi].cls

\* The detector labels that read 'plate' in some casing.
PlateSpellings == {label \in Labels : Lower(label) = Str.plate}

\* The stage record belongs to a box whose label is 'plate' in any casing.
PlateAt(r, i) ==
    /\ stages[r][i].stage # "detection"
    /\ LabelAt(r, i) \in PlateSpellings

\* C10: a box whose label maps to the dropped marker (the alias 'plate', in
\* any casing) gets no entry in detected_foods and no portion stage, and no
\* key stands for it in portion_estimates; the boxes around it are kept.
C10_DroppedLabelLeavesNoTrace ==
    \A r \in Reqs :
        /\ \A i \in DOMAIN stages[r] :
              PlateAt(r, i) => stages[r][i].stage = "mapping"
        /\ \A i \in DOMAIN detected_foods[r] :
              detected_foods[r][i].name \notin {NoneS, Str.plate}
        /\ DOMAIN portion_estimates[r] \cap {NoneS, Str.plate} = {}
        /\ Len(detected_foods[r]) =
              Cardinality({i \in StagesNamed(r, "mapping") :
                              /\ ~PlateAt(r, i)
                              /\ TruthyS(Lower(LabelAt(r, i)))})
        /\ (stages[r] # <<>> /\ PlateAt(r, Len(stages[r]))) =>
              pc[r] \in {"loop", "returned", "responded"}

C10_Witness ==
    \E r \in Reqs :
        /\ pc[r] = "returned"
        /\ results[r] =
              <<Boxes(<<Det(Str.Plate, Rat(8, 10), IBox(0, 0, 250, 300)),
                        Det(Str.apple, Rat(9, 10), IBox(100, 100, 400, 400))>>)>>
        /\ Len(result[r].detected_foods) = 1
        /\ result[r].detected_foods[1].name = Str.apple
        /\ DOMAIN result[r].portion_estimates = {Str.apple}
        /\ StagesNamed(r, "mapping") = {2, 3}
        /\ StagesNamed(r, "geometric") = {4}

(* ------------------------------------------------------------------ *)
(* What the result holds                                                *)
(* ------------------------------------------------------------------ *)

\* The boxes the detector's network found for the request, filter not applied.
FoundBoxes(r) ==
    IF StagesNamed(r, "detection") = {} THEN <<>>
    ELSE AllBoxes(stages[r][1].found)

\* C11: no detection under the configured confidence threshold reaches the
\* result: every box handed to the loop, every stage that runs and every
\* entry of detected_foods has a confidence >= the threshold, and a key is in
\* portion_estimates only for a box at or above the threshold.
C11_BelowThresholdExcluded ==
    \A r \in Reqs :
        /\ \A i \in DOMAIN AllBoxes(results[r]) :
              FLe(FOOD_RECOGNITION_CONFIDENCE, AllBoxes(results[r])[i].conf)
        /\ \A i \in DOMAIN detected_foods[r] :
              FLe(FOOD_RECOGNITION_CONFIDENCE, detected_foods[r][i].confidence)
        /\ Len(detected_foods[r]) <=
              Cardinality({i \in DOMAIN FoundBoxes(r) :
                              FLe(FOOD_RECOGNITION_CONFIDENCE, FoundBoxes(r)[i].conf)})
        /\ \A k \in DOMAIN portion_estimates[r] :
              \E i \in DOMAIN FoundBoxes(r) :
                 /\ FLe(FOOD_RECOGNITION_CONFIDENCE, FoundBoxes(r)[i].conf)
                 /\ map_to_food_class(FoundBoxes(r)[i].cls) = k
        /\ Returned(r) =>
              /\ result[r].detected_foods = detected_foods[r]
              /\ result[r].portion_estimates = portion_estimates[r]

C11_Witness ==
    \E r \in Reqs :
        /\ pc[r] = "returned"
        /\ FoundBoxes(r) = <<Det(Str.cup, Rat(3, 10), IBox(0, 100, 500, 700)),
                             Det(Str.apple, Rat(9, 10), IBox(100, 100, 400, 400))>>
        /\ Len(result[r].detected_foods) = 1
        /\ result[r].detected_foods[1].name = Str.apple
        /\ result[r].detected_foods[1].confidence = Rat(9, 10)
        /\ DOMAIN result[r].portion_estimates = {Str.apple}

\* A box of zero width or zero height, or reaching outside the image.
Degenerate(xyxy, shape) ==
    \/ xyxy[1] = xyxy[3]
    \/ xyxy[2] = xyxy[4]
    \/ FLt(xyxy[1], Int2F(0)) \/ FLt(xyxy[2], Int2F(0))
    \/ FGt(xyxy[3], Int2F(shape[2])) \/ FGt(xyxy[4], Int2F(shape[1]))

\* C12: a detection whose box is degenerate is dropped silently: no portion
\* stage runs for it, it adds no entry to detected_foods, and the analysis
\* does not fail for it.
C12_DegenerateBoxDropped ==
    \A r \in Reqs :
        /\ \A i \in DOMAIN stages[r] :
              stages[r][i].stage \in {"geometric", "depth", "blend"} =>
                 ~Degenerate(BoxAt(r, i).xyxy, image_shape(r))
        /\ Len(detected_foods[r]) <=
              Cardinality({i \in StagesNamed(r, "mapping") :
                              ~Degenerate(BoxAt(r, i).xyxy, image_shape(r))})
        /\ DetectionOk(r) => pc[r] # "raised"

\* The indices, in detector order, of the boxes that resolve to this key.
BoxesOfKey(r, k) ==
    {i \in DOMAIN AllBoxes(results[r]) :
        map_to_food_class(AllBoxes(results[r])[i].cls) = k}

\* The last of a non-empty set of indices.
LastOf(S) == CHOOSE i \in S : \A j \in S : j <= i

\* The estimate of the detection that was just estimated, taken alone,
\* before it is rounded.
EstimateAlone(r) ==
    IF TruthyF(depth_estimate[r])
    THEN FDiv(FAdd(estimated_weight[r], depth_estimate[r]), Int2F(2))
    ELSE estimated_weight[r]

\* C13: portion_estimates holds one value per food key, the estimate of the
\* last detection that resolved to the key (an earlier value is overwritten,
\* never summed or averaged), while detected_foods has one entry per kept
\* detection.
C13_LastEstimateWins ==
    \A r \in Reqs :
        /\ LastStageIs(r, "blend") =>
              RoundsTo1(EstimateAlone(r), portion_estimates[r][food_name[r]])
        /\ (Returned(r) /\ get_model("depth_estimation") = None) =>
              \A k \in DOMAIN result[r].portion_estimates :
                 /\ BoxesOfKey(r, k) # {}
                 /\ RoundsTo1(
                      geometric_estimate(image_shape(r), k,
                         AllBoxes(results[r])[LastOf(BoxesOfKey(r, k))].xyxy),
                      result[r].portion_estimates[k])
        /\ Returned(r) =>
              Len(result[r].detected_foods) =
                 Cardinality({i \in DOMAIN AllBoxes(results[r]) :
                    TruthyS(map_to_food_class(AllBoxes(results[r])[i].cls))})

C13_Witness ==
    \E r \in Reqs :
        /\ pc[r] = "returned"
        /\ get_model("depth_estimation") = None
        /\ request[r].image = Img(1000, 1000)
        /\ results[r] =
              <<Boxes(<<Det(Str.apple, Rat(9, 10), IBox(100, 100, 400, 400)),
                        Det(Str.Apple, Rat(6, 10), IBox(100, 100, 200, 200))>>)>>
        /\ Len(result[r].detected_foods) = 2
        /\ result[r].detected_foods[1].name = Str.apple
        /\ result[r].detected_foods[2].name = Str.apple
        /\ result[r].portion_estimates = (Str.apple :> Int2F(91))

\* The names of the entries of a food list.
NamesOf(foods) == {foods[i].name : i \in DOMAIN foods}

\* C14: every key of portion_estimates is the name of an entry of
\* detected_foods, while the loop runs and in every returned result, with
\* portion estimation on or off.
C14_PortionKeysAreDetectedNames ==
    \A r \in Reqs :
        /\ DOMAIN portion_estimates[r] \subseteq NamesOf(detected_foods[r])
        /\ Returned(r) =>
              DOMAIN result[r].portion_estimates
                 \subseteq NamesOf(result[r].detected_foods)
        /\ (/\ pc[r] = "responded"
            /\ response[r].status = 200
            /\ request[r].endpoint = "/analyze-image") =>
              DOMAIN response[r].body.portion_estimates
                 \subseteq NamesOf(response[r].body.detected_foods)

C14_Witness ==
    \E r \in Reqs :
        /\ pc[r] = "responded"
        /\ response[r].status = 200
        /\ request[r].endpoint = "/analyze-image"
        /\ request[r].include_portion_estimate
        /\ DOMAIN response[r].body.portion_estimates = {Str.mango, Str.apple}
        /\ NamesOf(response[r].body.detected_foods) = {Str.mango, Str.apple}
        /\ \E i \in DOMAIN AllBoxes(results[r]) :
              AllBoxes(results[r])[i].cls = Str.Apple

\* C15: the geometric stage never fails and yields a value > 0 for every box
\* and food key, and every value stored in portion_estimates, geometric alone
\* or blended with depth, is > 0.
C15_PortionsPositive ==
    \A r \in Reqs :
        /\ pc[r] # "raised"
        /\ LastStageIs(r, "geometric") =>
              GeometricDone(r) /\ pc[r] \in {"depth", "blend"}
        /\ GeometricDone(r) => FGt(estimated_weight[r], Int2F(0))
        /\ \A k \in DOMAIN portion_estimates[r] :
              FGt(portion_estimates[r][k], Int2F(0))
        /\ Returned(r) =>
              \A k \in DOMAIN result[r].portion_estimates :
                 FGt(result[r].portion_estimates[k], Int2F(0))

\* C15 witness: a zero-width box of a key outside the table, estimated at the
\* lower end of the band.
C15_Witness ==
    \E r \in Reqs :
        /\ pc[r] = "returned"
        /\ results[r][1].boxes[1].xyxy = IBox(300, 300, 300, 500)
        /\ result[r].portion_estimates = (Str.mango :> Int2F(50))

(* ------------------------------------------------------------------ *)
(* The mapper, seen through the entries it names                        *)
(* ------------------------------------------------------------------ *)

\* The label of the first box of the request has been mapped.
FirstMapped(r) ==
    \E i \in StagesNamed(r, "mapping") : stages[r][i].ri = 1 /\ stages[r][i].bi = 1

\* The label of the first box of the request.
FirstLabel(r) == results[r][1].boxes[1].cls

\* The label matches neither the taxonomy table, whatever its casing, nor an
\* alias entry.
Unmatched(label) ==
    /\ label # <<>>
    /\ Lower(label) \notin DOMAIN FOOD_CLASSES
    /\ Lower(label) \notin DOMAIN mappings

\* The upper-case letters the labels are written in.
UpperCase ==
    {SubSeq("ABCDEFGHIJKLMNOPQRSTUVWXYZ", k, k) : k \in 1..26}
    \cup {"U+00C9", "U+0130", "U+03A3", "U+212A"}

\* C17 as claimed: a label matching neither table passes through unchanged,
\* the food key being the detector's label itself, upper-case letters kept.
C17_UnmatchedLabelUnchanged ==
    \A r \in Reqs :
        (FirstMapped(r) /\ Unmatched(FirstLabel(r))) =>
            /\ Len(detected_foods[r]) >= 1
            /\ detected_foods[r][1].name = FirstLabel(r)

\* C17 amended: a label matching neither table passes through lower-cased;
\* the food key is the label itself exactly when it has no upper-case letter.
C17_UnmatchedLabelLowered ==
    \A r \in Reqs :
        (FirstMapped(r) /\ Unmatched(FirstLabel(r))) =>
            /\ Len(detected_foods[r]) >= 1
            /\ detected_foods[r][1].name = Lower(FirstLabel(r))
            /\ (detected_foods[r][1].name = FirstLabel(r)) <=>
                  (\A i \in DOMAIN FirstLabel(r) :
                      FirstLabel(r)[i] \notin UpperCase)
            /\ LastStageIs(r, "blend") =>
                  DOMAIN portion_estimates[r] = {Lower(FirstLabel(r))}

C17_Witness ==
    \E r \in Reqs :
        /\ LastStageIs(r, "blend")
        /\ FirstLabel(r) = Str.Mango
        /\ detected_foods[r][1].name = Str.mango
        /\ DOMAIN portion_estimates[r] = {Str.mango}

\* The alias entries that stand for a food.
AliasOf ==
       (Str.hot_dog :> Str.hotdog) @@ (Str.french_fries :> Str.fries)
    @@ (Str.doughnut :> Str.donut) @@ (Str.cup :> Str.coffee) @@ (Str.bowl :> Str.soup)

\* C18: a label whose lower-cased form is a key of the taxonomy table maps to
\* that key; only otherwise do the alias entries apply, on the lower-cased
\* label as well ('hot dog' -> 'hotdog', 'french fries' -> 'fries',
\* 'doughnut' -> 'donut', 'cup' -> 'coffee', 'bowl' -> 'soup').
C18_TableFirstThenAlias ==
    \A r \in Reqs :
        FirstMapped(r) =>
            LET lowered == Lower(FirstLabel(r))
            IN  /\ lowered \in DOMAIN FOOD_CLASSES =>
                      /\ Len(detected_foods[r]) >= 1
                      /\ detected_foods[r][1].name = lowered
                /\ (lowered \notin DOMAIN FOOD_CLASSES
                        /\ lowered \in DOMAIN AliasOf) =>
                      /\ Len(detected_foods[r]) >= 1
                      /\ detected_foods[r][1].name = AliasOf[lowered]
                      /\ LastStageIs(r, "blend") =>
                            DOMAIN portion_estimates[r] = {AliasOf[lowered]}

C18_Witness ==
    \E r \in Reqs :
        /\ LastStageIs(r, "blend")
        /\ FirstLabel(r) = Str.Hot_Dog
        /\ detected_foods[r][1].name = Str.hotdog
        /\ DOMAIN portion_estimates[r] = {Str.hotdog}

(* ------------------------------------------------------------------ *)
(* The portion switch and the order of the stages                       *)
(* ------------------------------------------------------------------ *)

\* The food list a sequence of boxes gives, whatever else is asked for.
RECURSIVE FoodsOf(_)
FoodsOf(boxes) ==
    IF boxes = <<>> THEN <<>>
    ELSE LET name == map_to_food_class(Head(boxes).cls)
         IN  (IF TruthyS(name) THEN <<food_info(name, Head(boxes))>> ELSE <<>>)
                \o FoodsOf(Tail(boxes))

\* C19: with include_portion_estimate false no geometric, depth or blend
\* stage runs and portion_estimates stays empty, while detected_foods and
\* image_dimensions are what the same detections and image give with it true.
C19_PortionSwitchOnlyPortions ==
    \A r \in Reqs :
        /\ (pc[r] # "idle" /\ ~request[r].include_portion_estimate) =>
              /\ pc[r] \notin {"geometric", "depth", "blend"}
              /\ \A i \in DOMAIN stages[r] :
                    stages[r][i].stage \in {"detection", "mapping"}
              /\ portion_estimates[r] = <<>>
              /\ Returned(r) => result[r].portion_estimates = <<>>
        /\ Returned(r) =>
              /\ result[r].detected_foods = FoodsOf(AllBoxes(results[r]))
              /\ result[r].image_dimensions =
                    [width |-> request[r].image.width,
                     height |-> request[r].image.height]

C19_Witness ==
    \E r \in Reqs :
        /\ pc[r] = "responded"
        /\ ~request[r].include_portion_estimate
        /\ request[r].image = Img(600, 500)
        /\ response[r].status = 200
        /\ Len(response[r].body.detected_foods) = 2
        /\ response[r].body.detected_foods[1].name = Str.mango
        /\ response[r].body.detected_foods[2].name = Str.apple
        /\ response[r].body.portion_estimates = <<>>
        /\ Cardinality(StagesNamed(r, "mapping")) = 2

\* The stage record at i comes before the one at j in the loop's order of
\* boxes.
BoxBefore(r, i, j) ==
    \/ stages[r][i].ri < stages[r][j].ri
    \/ stages[r][i].ri = stages[r][j].ri /\ stages[r][i].bi < stages[r][j].bi

\* The two stage records belong to the same box.
SameBox(r, i, j) ==
    stages[r][i].ri = stages[r][j].ri /\ stages[r][i].bi = stages[r][j].bi

\* C20 as claimed: the detector call comes first, and once a geometric, depth
\* or blend step has run in a call no mapping step runs in it any more.
C20_NoMappingAfterPortionStage ==
    \A r \in Reqs :
        \A i \in DOMAIN stages[r] :
            /\ (i = 1) <=> (stages[r][i].stage = "detection")
            /\ stages[r][i].stage = "mapping" =>
                  \A h \in 1..(i - 1) :
                      stages[r][h].stage \in {"detection", "mapping"}

\* C20 amended: the detector call comes first and nothing follows a failed
\* one; for each box the stages run in the order mapping, geometric, depth,
\* blend, each right after the one before it; and the mapping of a box comes
\* only after the last stage of the box before it.
C20_PerDetectionOrder ==
    \A r \in Reqs :
        \A i \in DOMAIN stages[r] :
            /\ (i = 1) <=> (stages[r][i].stage = "detection")
            /\ (i = 1 /\ ~stages[r][i].ok) => Len(stages[r]) = 1
            /\ stages[r][i].stage = "mapping" =>
                  \/ i = 2
                  \/ /\ stages[r][i - 1].stage \in {"mapping", "blend"}
                     /\ BoxBefore(r, i - 1, i)
            /\ stages[r][i].stage = "geometric" =>
                  stages[r][i - 1].stage = "mapping" /\ SameBox(r, i - 1, i)
            /\ stages[r][i].stage = "depth" =>
                  stages[r][i - 1].stage = "geometric" /\ SameBox(r, i - 1, i)
            /\ stages[r][i].stage = "blend" =>
                  /\ stages[r][i - 1].stage \in {"geometric", "depth"}
                  /\ SameBox(r, i - 1, i)

\* C20 witness: two kept boxes, the second mapped right after the blend of
\* the first.
C20_Witness ==
    \E r \in Reqs :
        /\ pc[r] = "returned"
        /\ Len(stages[r]) = 9
        /\ stages[r][4].stage = "depth"
        /\ stages[r][5].stage = "blend"
        /\ stages[r][6].stage = "mapping"
        /\ stages[r][9].stage = "blend"
        /\ BoxBefore(r, 5, 6)

(* ------------------------------------------------------------------ *)
(* C21: the analysis leaves the shared state alone                      *)
(* ------------------------------------------------------------------ *)

\* What belongs to the requests: everything but the model registry.
requestVars == <<pc, request, analysisVars, result, response>>

\* C21: every step of a request, from its arrival through the analysis
\* (whether it returns or raises) to its response, leaves the model
\* registry as it was: only loading and unloading change ModelLoader.models.
\* FOOD_CLASSES is a constant of the module and no step writes it.
C21_AnalysisLeavesRegistry ==
    [][requestVars' # requestVars => models' = models]_vars

\* An analysis that went through a failed depth inference and still
\* returned, the registry holding both handles.
C21_Witness ==
    /\ Returned(1)
    /\ \E i \in StagesNamed(1, "depth") : ~stages[1][i].ok
    /\ get_model("food_recognition") = "yolo"
    /\ get_model("depth_estimation") = "midas"

(* ------------------------------------------------------------------ *)
(* C22: no retries                                                      *)
(* ------------------------------------------------------------------ *)

\* C22: in one analyze_image call the detector is invoked at most once and
\* the depth provider at most once for each kept detection, whether the
\* invocation raised, gave an estimate or gave one rejected as noise; the
\* depth provider is invoked for kept detections only.
C22_NoRetries ==
    \A r \in Reqs :
        /\ Cardinality(StagesNamed(r, "detection")) <= 1
        /\ \A i, j \in StagesNamed(r, "depth") :
              SameBox(r, i, j) => i = j
        /\ \A i \in StagesNamed(r, "depth") :
              map_to_food_class(BoxAt(r, i).cls) # NoneS

\* Two kept detections: the depth inference of the first raised, that of
\* the second gave an estimate rejected as noise; each ran once.
C22_Witness ==
    /\ pc[1] = "blend"
    /\ Cardinality(StagesNamed(1, "detection")) = 1
    /\ Cardinality(StagesNamed(1, "depth")) = 2
    /\ \E i \in StagesNamed(1, "depth") : ~stages[1][i].ok
    /\ LastStageIs(1, "depth")
    /\ stages[1][Len(stages[1])].ok
    /\ estimated_grams[1] # NoneF
    /\ depth_estimate[1] = NoneF

(* ------------------------------------------------------------------ *)
(* C23: concurrent analyses are independent                             *)
(* ------------------------------------------------------------------ *)

\* The portion estimates of a sequence of boxes, computed box by box from
\* the image, the boxes and what the depth model gave for each kept box.
RECURSIVE portions_alone(_, _, _, _, _)
portions_alone(shape, boxes, depths, depth_model, acc) ==
    IF boxes = <<>> THEN acc
    ELSE LET box  == Head(boxes)
             name == map_to_food_class(box.cls)
         IN  IF ~TruthyS(name)
             THEN portions_alone(shape, Tail(boxes), depths, depth_model, acc)
             ELSE IF depth_model = None
             THEN portions_alone(shape, Tail(boxes), depths, depth_model,
                     DictSet(acc, name,
                        final_portion(shape, name, box.xyxy, NoneF)))
             ELSE portions_alone(shape, Tail(boxes), Tail(depths), depth_model,
                     DictSet(acc, name,
                        final_portion(shape, name, box.xyxy,
                           IF Head(depths) = DepthFails THEN NoneF
                           ELSE Head(depths))))

\* analyze_image as a function of what one call is given: the image and the
\* switch, what the detector does, what the depth model does for each kept
\* box in turn, and the registry.
analyze_image_alone(image, include, detector_ok, found, depths) ==
    IF ~image.decodable THEN Raise("UnidentifiedImageError")
    ELSE IF get_model("food_recognition") = None THEN Raise("ValueError")
    ELSE IF ~detector_ok THEN Raise("DetectorError")
    ELSE LET boxes == AllBoxes(food_model(found, confidence_threshold))
         IN  [kind |-> "return",
              detected_foods |-> FoodsOf(boxes),
              portion_estimates |->
                 IF include
                 THEN portions_alone(<<image.height, image.width>>, boxes,
                         depths, get_model("depth_estimation"), <<>>)
                 ELSE <<>>,
              image_dimensions |->
                 [width |-> image.width, height |-> image.height]]

\* What the detector and the depth model did in the call of request r.
DetectorRan(r) == StagesNamed(r, "detection") # {}
DetectorOf(r) == stages[r][CHOOSE i \in StagesNamed(r, "detection") : TRUE]
DepthsOf(r) ==
    LET recs == SelectSeq(stages[r], LAMBDA st : st.stage = "depth")
    IN  [i \in DOMAIN recs |-> recs[i].normalized_depth]

\* The result request r gets when it is the only one.
ResultAlone(r) ==
    analyze_image_alone(request[r].image,
                        request[r].include_portion_estimate,
                        DetectorRan(r) => DetectorOf(r).ok,
                        IF DetectorRan(r) THEN DetectorOf(r).found ELSE <<>>,
                        DepthsOf(r))

\* C23: however the steps of the requests interleave, with the registry
\* unchanged, the result of each request (returned or raised) is the one
\* its own image, detections and depth readings give when it runs alone; and
\* at every moment each entry of a request's detected_foods is made from one
\* of its own boxes and each key of its portion_estimates is the name of one
\* of its own detected foods.
C23_ConcurrentAnalysesIndependent ==
    \A r \in Reqs :
        /\ result[r] # NoResult => result[r] = ResultAlone(r)
        /\ \A i \in DOMAIN detected_foods[r] :
              \E j \in DOMAIN AllBoxes(results[r]) :
                 LET box == AllBoxes(results[r])[j]
                 IN  /\ TruthyS(map_to_food_class(box.cls))
                     /\ detected_foods[r][i] =
                           food_info(map_to_food_class(box.cls), box)
        /\ DOMAIN portion_estimates[r] \subseteq NamesOf(detected_foods[r])

\* Request 1 has returned the small apple of its image, the plate dropped,
\* while request 2, whose image shows a larger apple, is in the middle of
\* its analysis with the depth reading of its apple taken.
C23_Witness ==
    /\ Returned(1)
    /\ Len(result[1].detected_foods) = 1
    /\ DOMAIN result[1].portion_estimates = {Str.apple}
    /\ pc[2] = "blend"
    /\ Len(detected_foods[2]) = 1
    /\ detected_foods[2][1] # result[1].detected_foods[1]
    /\ depth_estimate[2] # NoneF

(* ------------------------------------------------------------------ *)
(* C24: how many inference calls run at once                            *)
(* ------------------------------------------------------------------ *)

\* The requests whose detector or depth-model call is in progress.
InferenceInProgress == {r \in Reqs : pc[r] \in {"detect", "depth"}}

\* The requests inside analyze_image: admitted to the analysis and not
\* through with it.
InAnalysis ==
    {r \in Reqs : pc[r] \in {"decode", "get_model", "detect", "loop",
                             "geometric", "depth", "blend"}}

\* C24 as claimed: inference calls (detection and depth) run on a bounded
\* worker pool; with more requests in flight than the pool has workers, the
\* inference calls in progress never exceed the capacity, and the requests
\* beyond it wait instead of being admitted together: at no moment is every
\* request in flight inside its analysis, or has every one an inference
\* call in progress.
C24_BoundedPool ==
    /\ Cardinality(InferenceInProgress) < MaxRequests
    /\ Cardinality(InAnalysis) < MaxRequests

(* ------------------------------------------------------------------ *)
(* C25: readiness                                                       *)
(* ------------------------------------------------------------------ *)

ModelNames == {"food_recognition", "depth_estimation", "nutrition"}

\* C25: /health/ready answers ready exactly when app.state holds a model
\* loader whose food recognition model is not None; a load in which only
\* the depth model failed leaves it ready; unload_models leaves it not
\* ready, with get_model None for every name.
C25_ReadyIffFoodModel ==
    /\ [](readiness_check.ready <=>
             /\ "model_loader" \in app_state
             /\ "food_recognition" \in DOMAIN models
             /\ models["food_recognition"] # None)
    /\ [][("depth_estimation" \in DOMAIN models'
            /\ models'["depth_estimation"] = None
            /\ models' # models)
           => readiness_check'.ready]_vars
    /\ [][(models # <<>> /\ models' = <<>>)
           => /\ ~readiness_check'.ready
              /\ readiness_check'.reason = "Food recognition model not loaded"
              /\ \A name \in ModelNames : get_model(name)' = None]_vars

\* The load in which only the depth model failed has run: the service is
\* ready without a depth model.
C25_Witness ==
    /\ "model_loader" \in app_state
    /\ get_model("food_recognition") = "yolo"
    /\ get_model("depth_estimation") = None
    /\ "depth_estimation" \in DOMAIN models
    /\ readiness_check.ready

(* ------------------------------------------------------------------ *)
(* C26: the fallback model                                              *)
(* ------------------------------------------------------------------ *)

\* The requests of the current chat_completion call that went to a model.
CallsTo(model) == {i \in DOMAIN api_calls : api_calls[i].model = model}

\* chat_completion has returned or raised.
ChatOver == chat_pc \in {"returned", "raised", "responded"}

\* C26: in one chat_completion call the default model is asked at most
\* once and the fallback model at most once, the fallback only as the
\* second request after the default request raised.  After a default
\* request that answered there is no fallback request and the answer is
\* returned; after one that raised there is exactly one fallback request,
\* with the messages of the default request (system prompt, history, user
\* message), whose answer is returned, or whose error leaves the call, the
\* handler answering 500.  A returned answer carries the text and the
\* model name of the API response it came from.
C26_FallbackOnceAfterDefaultFailed ==
    /\ Cardinality(CallsTo(DEFAULT_LLM_MODEL)) <= 1
    /\ Cardinality(CallsTo(FALLBACK_LLM_MODEL)) <= 1
    /\ \A i \in CallsTo(FALLBACK_LLM_MODEL) :
          /\ i = 2
          /\ api_calls[1].model = DEFAULT_LLM_MODEL
          /\ api_calls[1].outcome.raises
    /\ (api_calls # <<>> /\ ~api_calls[1].outcome.raises) =>
          /\ Len(api_calls) = 1
          /\ ChatOver
          /\ chat_result.kind = "return"
          /\ chat_result.model = api_calls[1].outcome.model
          /\ chat_result.response = api_calls[1].outcome.content
    /\ (api_calls # <<>> /\ api_calls[1].outcome.raises /\ ChatOver) =>
          /\ Len(api_calls) = 2
          /\ api_calls[2].model = FALLBACK_LLM_MODEL
          /\ api_calls[2].messages = api_calls[1].messages
          /\ api_calls[1].messages =
                <<Message("system",
                          get_chat_system_prompt(chat_input.user_context))>>
                \o chat_input.conversation_history
                \o <<Message("user", chat_input.message)>>
          /\ ~api_calls[2].outcome.raises =>
                /\ chat_result.kind = "return"
                /\ chat_result.model = api_calls[2].outcome.model
                /\ chat_result.response = api_calls[2].outcome.content
          /\ api_calls[2].outcome.raises =>
                /\ chat_result.kind = "raise"
                /\ chat_pc = "responded" => chat_response = HTTPException(500)

\* The default request raised, the fallback request, carrying the system
\* prompt, two messages of history and the user message, answered, and the
\* handler passed the answer, the text 'None' of the model the API named,
\* on.
C26_Witness ==
    /\ chat_pc = "responded"
    /\ chat_response.status = 200
    /\ Len(api_calls) = 2
    /\ api_calls[1].outcome.raises
    /\ Len(api_calls[2].messages) = 4
    /\ api_calls[2].model = FALLBACK_LLM_MODEL
    /\ chat_response.body.model = "gpt-3.5-turbo-0125"
    /\ chat_response.body.response = <<"None">>

(* ------------------------------------------------------------------ *)
(* C27: detected_foods follows the kept detections                      *)
(* ------------------------------------------------------------------ *)

\* The boxes the detector returned whose label the mapper keeps, in the
\* detector's order.
KeptBoxes(r) ==
    SelectSeq(AllBoxes(results[r]),
              LAMBDA b : TruthyS(map_to_food_class(b.cls)))

\* C27: when analyze_image has returned, detected_foods has one entry per
\* kept box, the i-th entry made from the i-th kept box: its mapped name
\* and bounding_box {x: int(x1), y: int(y1), width: int(x2 - x1),
\* height: int(y2 - y1)}; before that it is the beginning of that list.
C27_DetectedFoodsFollowKeptBoxes ==
    \A r \in Reqs :
        LET kept == KeptBoxes(r)
        IN  /\ Returned(r) => Len(result[r].detected_foods) = Len(kept)
            /\ Len(detected_foods[r]) <= Len(kept)
            /\ \A i \in DOMAIN detected_foods[r] :
                  /\ detected_foods[r][i].name = map_to_food_class(kept[i].cls)
                  /\ detected_foods[r][i].bounding_box =
                        [x |-> PyInt(kept[i].xyxy[1]),
                         y |-> PyInt(kept[i].xyxy[2]),
                         width |-> PyInt(FSub(kept[i].xyxy[3], kept[i].xyxy[1])),
                         height |-> PyInt(FSub(kept[i].xyxy[4], kept[i].xyxy[2]))]
                  /\ Returned(r) =>
                        result[r].detected_foods[i] = detected_foods[r][i]

\* The detector returned a plate and then a mango with the corners
\* (100.5, 100.25) and (213, 794.25): the one entry is the mango's, 112
\* wide (int(112.5), not int(213) - int(100.5)) and 694 high.
C27_Witness ==
    /\ Returned(1)
    /\ Len(AllBoxes(results[1])) = 2
    /\ AllBoxes(results[1])[1].cls = Str.Plate
    /\ Len(result[1].detected_foods) = 1
    /\ result[1].detected_foods[1].name = Str.mango
    /\ result[1].detected_foods[1].bounding_box =
          [x |-> 100, y |-> 100, width |-> 112, height |-> 694]

(* ------------------------------------------------------------------ *)
(* C28: the mapper is idempotent on the names it keeps                  *)
(* ------------------------------------------------------------------ *)

\* C28: a name the mapper gave for a kept label is mapped to itself: for
\* every label L detected, with _map_to_food_class(L) = k not dropped,
\* _map_to_food_class(k) = k.
C28_MapperIdempotentOnKept ==
    \A r \in Reqs :
        \A i \in DOMAIN detected_foods[r] :
            LET k == detected_foods[r][i].name
            IN  /\ k = map_to_food_class(KeptBoxes(r)[i].cls)
                /\ map_to_food_class(k) = k

\* The label 'cup' was mapped through the alias dict to 'coffee', a name
\* other than the label, lower-cased or not.
C28_Witness ==
    /\ LastStageIs(1, "mapping")
    /\ FirstLabel(1) = Str.cup
    /\ Len(detected_foods[1]) = 1
    /\ detected_foods[1][1].name = Str.coffee
    /\ map_to_food_class(Str.coffee) = Str.coffee

(* ------------------------------------------------------------------ *)
(* C29: with portions asked for, every detected name has an estimate    *)
(* ------------------------------------------------------------------ *)

\* C29: when analyze_image has returned with include_portion_estimate
\* true, the keys of portion_estimates are exactly the names in
\* detected_foods, whether the depth provider was absent, raised, gave an
\* estimate rejected as noise or gave one that was blended in.
C29_EveryDetectedNameEstimated ==
    \A r \in Reqs :
        (Returned(r) /\ request[r].include_portion_estimate) =>
            /\ DOMAIN result[r].portion_estimates =
                  NamesOf(result[r].detected_foods)
            /\ LET kept == KeptBoxes(r)
               IN  NamesOf(result[r].detected_foods) =
                      {map_to_food_class(kept[i].cls) : i \in DOMAIN kept}

\* Two foods returned with an estimate each: the depth inference of one
\* raised, that of the other read a depth of zero, rejected as noise.
C29_Witness ==
    /\ Returned(1)
    /\ request[1].include_portion_estimate
    /\ Cardinality(DOMAIN result[1].portion_estimates) = 2
    /\ Cardinality(NamesOf(result[1].detected_foods)) = 2
    /\ \E i \in StagesNamed(1, "depth") : ~stages[1][i].ok
    /\ \E i \in StagesNamed(1, "depth") :
          /\ stages[1][i].ok
          /\ stages[1][i].normalized_depth = Rat(0, 1)

====
